---- MODULE Spec2Model ----
(***************************************************************************)
(* Job registry (JobService) and bounded-concurrency batch copy engine     *)
(* (CopyService.batchCopy) of the Google Drive copier, with the Drive      *)
(* backend calls (GoogleDriveService.copyFile / copyFolder) they await.    *)
(*                                                                         *)
(* JavaScript runs one handler at a time: an action is the code that runs  *)
(* between two suspension points (an awaited backend call that returns, a  *)
(* request that arrives).  Collections keep the source's 0-based indices.  *)
(***************************************************************************)
EXTENDS Integers, Sequences, FiniteSets, TLC

VARIABLES
    jobs,       \* the registry: jobId -> CopyJob (job.service.ts:12)
    runs,       \* the processJob / batchCopy invocations, numbered in call order
    now,        \* Date.now()
    nextRun,    \* the number the next processJob invocation gets
    ret,        \* what the last registry / endpoint operation returned
    held,       \* a snapshot a caller of getJob has kept
    client      \* the page that polls the status of a job (page.tsx)

vars == <<jobs, runs, now, nextRun, ret, held, client>>

----------------------------------------------------------------------------
(* Bounds of the model *)

MaxJobs == 1
MaxItems == 2
MaxChildren == 2
MaxTime == 1
MaxGcJobs == 2
MaxRandom == 1
MaxPairJobs == 2
MaxUrlPieces == 4
MaxHangItems == 3
MaxDepth == 3
MaxTreeChildren == 3
MaxFolderFiles == 50

(* Program constants *)

DEFAULT_CONCURRENCY == 3
MIN_CONCURRENCY == 1
MAX_CONCURRENCY == 10

----------------------------------------------------------------------------
(* JavaScript numbers: an integer or NaN.  Math.min / Math.max return NaN  *)
(* as soon as one argument is NaN.                                         *)

Num(v) == [nan |-> FALSE, v |-> v]

NaN == [nan |-> TRUE, v |-> 0]

MathMin(a, b) ==
    IF a.nan \/ b.nan THEN NaN
    ELSE IF a.v < b.v THEN a ELSE b

MathMax(a, b) ==
    IF a.nan \/ b.nan THEN NaN
    ELSE IF a.v > b.v THEN a ELSE b

\* Array.from({ length: x }): ToLength(x) is 0 for NaN and for negatives.
ToLength(x) ==
    IF x.nan THEN 0
    ELSE IF x.v < 0 THEN 0 ELSE x.v

\* The concurrency values a request body can carry: numbers below, inside
\* and above the range, the default an absent field takes, and a value
\* Math.min turns into NaN (a non-numeric JSON string or object).
ConcurrencyInputs ==
    {Num(0), Num(1), Num(2), Num(DEFAULT_CONCURRENCY), Num(999), NaN}

----------------------------------------------------------------------------
(* JavaScript numbers: fractions.  The arithmetic is that of IEEE 754      *)
(* doubles: an operation gives its exact result rounded to 53 significant  *)
(* bits, a tie going to the even neighbour.  A positive double is here     *)
(* (hi * Limb^2 + mid * Limb + lo) / 2^scale: its significand in three     *)
(* limbs of 18 bits, of which hi may be longer.                            *)

SignificandBits == 53

Limb == 2^18

\* The number of binary digits of n.
BitLength(n) == CHOOSE len \in 1..30 : 2^(len - 1) <= n /\ n < 2^len

\* The carries moved up, so that mid and lo are below Limb.
Carried(hi, mid, lo, scale) ==
    [hi |-> hi + (mid + lo \div Limb) \div Limb,
     mid |-> (mid + lo \div Limb) % Limb,
     lo |-> lo % Limb,
     scale |-> scale]

\* Rounding to the nearest double, a tie to the even one: exact has more
\* than SignificandBits bits, the surplus lying in lo; sticky tells that
\* the exact value has something beyond them.
RoundToNearestEven(exact, sticky) ==
    LET round(x) ==
        LET unit == 2^(2 * 18 + BitLength(x.hi) - SignificandBits)
            tail == x.lo % unit
            odd == (x.lo \div unit) % 2 = 1
            up == \/ 2 * tail > unit
                  \/ 2 * tail = unit /\ (sticky \/ odd)
        IN Carried(x.hi, x.mid, x.lo - tail + (IF up THEN unit ELSE 0), x.scale)
    IN CHOOSE result \in {round(x) : x \in {exact}} : TRUE

\* The number of 0 digits of a / b behind the point before the first 1.
RECURSIVE LeadingZeros(_, _)
LeadingZeros(a, b) == IF 2 * a >= b THEN 0 ELSE 1 + LeadingZeros(2 * a, b)

\* a / b for integers 0 < a <= b < 2^13: long division, 18 digits at a
\* time, gives the 54 digits from the first 1 on (53 when a = b), which are
\* rounded.
Divide(a, b) ==
    IF a = b THEN [hi |-> Limb \div 2, mid |-> 0, lo |-> 0, scale |-> SignificandBits]
    ELSE LET zeros == LeadingZeros(a, b)
             r0 == a * 2^zeros
             r1 == (r0 * Limb) % b
             r2 == (r1 * Limb) % b
             r3 == (r2 * Limb) % b
         IN RoundToNearestEven([hi |-> (r0 * Limb) \div b,
                                mid |-> (r1 * Limb) \div b,
                                lo |-> (r2 * Limb) \div b,
                                scale |-> zeros + 3 * 18],
                               r3 # 0)

\* x * 100
Times100(factor) ==
    LET times(x) ==
        RoundToNearestEven(Carried(x.hi * 100, x.mid * 100, x.lo * 100, x.scale),
                           FALSE)
    IN CHOOSE result \in {times(x) : x \in {factor}} : TRUE

\* Math.floor of a double below 2^30 whose scale is at least 36: what lies
\* in mid and lo is behind the point.
MathFloor(x) == x.hi \div 2^(x.scale - 2 * 18)

----------------------------------------------------------------------------
(* References.  A string is the sequence of its pieces: the pieces are the *)
(* texts the patterns look for, runs of characters of [a-zA-Z0-9_-], and   *)
(* other text.                                                             *)

DriveFile == "drive.google.com/file/d/"
DriveOpen == "drive.google.com/open?"
DriveUc == "drive.google.com/uc?"
DriveFolder == "drive.google.com/drive/folders/"
IdEquals == "id="
Run24 == "abcdefghijklmnopqrstuvwx"

\* The runs of characters of [a-zA-Z0-9_-], and how many characters each has.
IdRuns == {"a", "AAAA", "BBBB", "not-a-url", Run24}

Width(piece) ==
    CASE piece = "a" -> 1
      [] piece = "AAAA" -> 4
      [] piece = "BBBB" -> 4
      [] piece = "not-a-url" -> 9
      [] piece = Run24 -> 24
      [] OTHER -> 0

Whitespace == {" "}

UrlFile == <<"https://", DriveFile, "AAAA", "/view">>
UrlFolder == <<"https://", DriveFolder, "BBBB">>
UrlBad == <<"not-a-url">>

Urls == {UrlFile, UrlFolder, UrlBad}

NullParsed == [ok |-> FALSE, id |-> << >>, type |-> ""]

\* String.prototype.trim
RECURSIVE trim(_)
trim(str) ==
    IF str = << >> THEN str
    ELSE IF str[1] \in Whitespace THEN trim(Tail(str))
    ELSE IF str[Len(str)] \in Whitespace THEN trim(SubSeq(str, 1, Len(str) - 1))
    ELSE str

\* ([a-zA-Z0-9_-]+) at position p: the longest run of such characters.
RECURSIVE Capture(_, _)
Capture(str, p) ==
    IF p > Len(str) THEN << >>
    ELSE IF str[p] \in IdRuns THEN <<str[p]>> \o Capture(str, p + 1)
    ELSE << >>

\* str has the pieces of text at position p.
TextAt(str, p, text) ==
    /\ p + Len(text) - 1 <= Len(str)
    /\ SubSeq(str, p, p + Len(text) - 1) = text

\* str.match(/text([a-zA-Z0-9_-]+)/): match[1] of the leftmost match, or
\* nothing.
MatchAfter(str, text) ==
    LET at == {p \in 1..Len(str) :
                  TextAt(str, p, text) /\ Capture(str, p + Len(text)) # << >>}
    IN IF at = {} THEN << >>
       ELSE LET p == CHOOSE x \in at : \A y \in at : x <= y
            IN Capture(str, p + Len(text))

\* str.match(/drive\.google\.com\/uc\?.*id=([a-zA-Z0-9_-]+)/): .* is greedy,
\* the match takes the last id= it can.
MatchUc(str) ==
    LET at == {q \in 1..Len(str) :
                  /\ str[q] = IdEquals
                  /\ Capture(str, q + 1) # << >>
                  /\ \E p \in 1..(q - 1) : str[p] = DriveUc}
    IN IF at = {} THEN << >>
       ELSE LET q == CHOOSE x \in at : \A y \in at : x >= y
            IN Capture(str, q + 1)

\* URL_PATTERNS
Match(regex, str) ==
    CASE regex = "DRIVE_FILE" -> MatchAfter(str, <<DriveFile>>)
      [] regex = "DRIVE_FILE_OPEN" -> MatchAfter(str, <<DriveOpen, IdEquals>>)
      [] regex = "DRIVE_FILE_UC" -> MatchUc(str)
      [] regex = "DRIVE_FOLDER" -> MatchAfter(str, <<DriveFolder>>)

RECURSIVE Characters(_)
Characters(str) ==
    IF str = << >> THEN 0 ELSE Width(str[1]) + Characters(Tail(str))

\* A test for a bare id of any length.
TestIdOnlyAnyLength(str) ==
    /\ str # << >>
    /\ \A p \in 1..Len(str) : str[p] \in IdRuns

\* URL_PATTERNS.DRIVE_ID_ONLY.test(str): /^[a-zA-Z0-9_-]{25,}$/
TestIdOnly(str) ==
    /\ \A p \in 1..Len(str) : str[p] \in IdRuns
    /\ Characters(str) >= 25

\* The patterns with the folder link first.
PatternsFolderFirst ==
    <<[regex |-> "DRIVE_FOLDER", type |-> "folder"],
      [regex |-> "DRIVE_FILE", type |-> "file"],
      [regex |-> "DRIVE_FILE_OPEN", type |-> "file"],
      [regex |-> "DRIVE_FILE_UC", type |-> "file"]>>

\* const patterns = [...]
Patterns ==
    <<[regex |-> "DRIVE_FILE", type |-> "file"],
      [regex |-> "DRIVE_FILE_OPEN", type |-> "file"],
      [regex |-> "DRIVE_FILE_UC", type |-> "file"],
      [regex |-> "DRIVE_FOLDER", type |-> "folder"]>>

\* The loop over the patterns and the test for a bare id.
MatchPatterns(trimmedUrl) ==
    LET hits == {n \in 1..Len(Patterns) : Match(Patterns[n].regex, trimmedUrl) # << >>}
    IN IF hits # {}
       THEN LET n == CHOOSE x \in hits : \A y \in hits : x <= y
            IN [ok |-> TRUE, id |-> Match(Patterns[n].regex, trimmedUrl),
                type |-> Patterns[n].type]
       ELSE IF TestIdOnly(trimmedUrl)
       THEN [ok |-> TRUE, id |-> trimmedUrl, type |-> "file"]
       ELSE NullParsed

\* A parser that takes any non-empty string for the id of a file.
parseGoogleDriveUrlLoose(url) ==
    IF MatchPatterns(trim(url)).ok THEN MatchPatterns(trim(url))
    ELSE [ok |-> TRUE, id |-> url, type |-> "file"]

parseGoogleDriveUrl(url) ==
    IF url = << >> THEN NullParsed
    ELSE MatchPatterns(trim(url))

\* Arrays of references, indexed from 0.
UrlLists == UNION {[0..(n - 1) -> Urls] : n \in 0..MaxItems}

Length(arr) == Cardinality(DOMAIN arr)

----------------------------------------------------------------------------
(* Messages: the text with its interpolated values *)

Msg(tag, a, b) == [tag |-> tag, a |-> a, b |-> b]

----------------------------------------------------------------------------
(* Job registry *)

\* The values of Math.random().toString(36).substring(7).
Randoms == 0..MaxRandom

\* `copy_${timestamp}_${random}`
generateJobId(timestamp, random) == [timestamp |-> timestamp, random |-> random]

\* An id generateJobId has not produced.
NoSuchId == [timestamp |-> 0, random |-> MaxRandom + 1]

Terminal == {"success", "error"}

\* Object.assign(target, updates)
ObjectAssign(target, updates) ==
    [f \in (DOMAIN target) \cup (DOMAIN updates) |->
        IF f \in DOMAIN updates THEN updates[f] ELSE target[f]]

\* A filter that keeps the items still to be done.
CountNotCompleted(items) ==
    Cardinality({i \in DOMAIN items : items[i].status \notin Terminal})

\* job.items.filter(success or error).length
CountCompletedOnlySuccess(items) ==
    Cardinality({i \in DOMAIN items : items[i].status = "success"})

CountCompleted(items) ==
    Cardinality({i \in DOMAIN items : items[i].status \in Terminal})

\* An update that is assigned to every item of the job.
updateJobItemAssignsAll(jobsMap, jobId, itemIndex, updates) ==
    IF jobId \notin DOMAIN jobsMap THEN jobsMap
    ELSE [jobsMap EXCEPT ![jobId].items =
             [i \in DOMAIN @ |-> ObjectAssign(@[i], updates)]]

\* The call takes the value of its argument, evaluated once before the body
\* runs: the body is applied to the one element of {jobsMap}.
updateJobItem(jobsMap, jobId, itemIndex, updates) ==
    LET update(registry) ==
        IF jobId \notin DOMAIN registry THEN registry
        ELSE IF itemIndex \notin DOMAIN registry[jobId].items THEN registry
        ELSE
            LET job == registry[jobId]
                items1 == [job.items EXCEPT ![itemIndex] = ObjectAssign(@, updates)]
                job1 == [job EXCEPT !.items = items1]
                completed == CountCompleted(items1)
                job2 == IF updates.status \in Terminal
                        THEN [job1 EXCEPT
                                !.completedItems = completed,
                                !.status = IF completed = job.totalItems
                                           THEN "complete" ELSE @]
                        ELSE job1
            IN [registry EXCEPT ![jobId] = job2]
    IN CHOOSE result \in {update(registry) : registry \in {jobsMap}} : TRUE

\* The progress sink processJob hands to batchCopy.
onProgress(jobsMap, jobId, index, status, progress, message) ==
    updateJobItem(jobsMap, jobId, index,
                  [status |-> status, progress |-> progress, message |-> message])

\* A job record that is registered before its folder is known.
NewJobWithoutFolder(jobId, urls, folderId, createdAt) ==
    [id |-> jobId,
     status |-> "processing",
     totalItems |-> Length(urls),
     completedItems |-> 0,
     items |-> [i \in DOMAIN urls |->
                  [index |-> i, url |-> urls[i], status |-> "pending",
                   progress |-> 0, message |-> Msg("Waiting...", 0, 0)]],
     targetFolderId |-> "",
     createdAt |-> createdAt]

NewJob(jobId, urls, folderId, createdAt) ==
    [id |-> jobId,
     status |-> "processing",
     totalItems |-> Length(urls),
     completedItems |-> 0,
     items |-> [i \in DOMAIN urls |->
                  [index |-> i, url |-> urls[i], status |-> "pending",
                   progress |-> 0, message |-> Msg("Waiting...", 0, 0)]],
     targetFolderId |-> folderId,
     createdAt |-> createdAt]

----------------------------------------------------------------------------
(* Batch copy engine.  A world W is the registry together with the engine  *)
(* runs: the engine's progress callback writes into the registry.          *)

World(jobsMap, runsMap) == [jobs |-> jobsMap, runs |-> runsMap]

NoResult == [defined |-> FALSE, url |-> "", success |-> FALSE, name |-> "", error |-> ""]

\* The children listFilesInFolder returns, each by its mimeType: a file or a
\* folder.  A listing of files alone:
FilesOnly(total) == [i \in 1..total |-> "file"]

\* An activation of copyFolder that awaits the copy of its child number cur.
Frame(files, cur) == [files |-> files, cur |-> cur]

\* A worker suspended in a backend call for item idx.  Inside copyFolder,
\* files is the listing of the folder that is being copied, cur the number
\* of the child in hand (i + 1) and frames the activations of copyFolder
\* that await this one, the outermost first.
AwaitingIn(pc, idx, cur, files, frames) ==
    [pc |-> pc, item |-> idx, cur |-> cur, total |-> Len(files),
     files |-> files, frames |-> frames]

Returned == AwaitingIn("returned", 0, 0, << >>, << >>)

\* A worker suspended in a backend call of copyFile, or of the copyFolder
\* that processItem called, whose children are files.
Awaiting(pc, idx, cur, total) == AwaitingIn(pc, idx, cur, FilesOnly(total), << >>)

\* Math.max(MIN_CONCURRENCY, Math.min(concurrency, MAX_CONCURRENCY))
safeConcurrency(concurrency) ==
    MathMax(Num(MIN_CONCURRENCY), MathMin(concurrency, Num(MAX_CONCURRENCY)))

\* A run with one worker for each item, whatever the concurrency.
WorkerCountPerItem(safe, n) == n

\* A run with a single worker.
WorkerCountOne(safe, n) == IF n = 0 THEN 0 ELSE 1

\* Array.from({ length: Math.min(safeConcurrency, items.length) }, ...)
WorkerCount(safe, n) == ToLength(MathMin(safe, Num(n)))

\* onProgress?.(index, status, progress, message): the event is recorded in
\* the run's log and delivered to the registry's sink.
Emit(W, k, idx, status, progress, message) ==
    LET emit(V) ==
        World(onProgress(V.jobs, V.runs[k].jobId, idx, status, progress, message),
              [V.runs EXCEPT ![k].events[idx] =
                  Append(@, [status |-> status, progress |-> progress,
                             message |-> message])])
    IN CHOOSE result \in {emit(V) : V \in {W}} : TRUE

\* A catch block that puts the item back to Pending.
ItemFailedBackToPending(W, k, idx, reason) ==
    Emit(W, k, idx, "pending", 0, Msg("Waiting...", 0, 0))

\* The catch block of processItem: the outcome and the error event.
ItemFailed(W, k, idx, reason) ==
    LET W1 == World(W.jobs,
                    [W.runs EXCEPT ![k].results[idx] =
                        [defined |-> TRUE, url |-> W.runs[k].items[idx].url,
                         success |-> FALSE, name |-> "", error |-> reason]])
    IN Emit(W1, k, idx, "error", 0, Msg("Error", reason, 0))

SetWorker(W, k, w, worker) == World(W.jobs, [W.runs EXCEPT ![k].workers[w] = worker])

RECURSIVE processItem(_, _, _)

\* A failure that ends the worker instead of the item.
FailAbortsWorker(W, k, w, idx, reason) ==
    SetWorker(ItemFailed(W, k, idx, reason), k, w, Returned)

\* try { ... } catch { ... } sits inside the while loop: after the catch
\* block the worker goes on to claim the next index.
Fail(W, k, w, idx, reason) ==
    processItem(ItemFailed(W, k, idx, reason), k, w)

\* An exception after the success event falls into the catch block.
ItemSucceededThenFailed(W, k, idx, name, message) ==
    ItemFailed(Emit(W, k, idx, "success", 100, message), k, idx, "Unknown error")

\* The end of the try block: the outcome and the success event.
ItemSucceeded(W, k, idx, name, message) ==
    LET W1 == World(W.jobs,
                    [W.runs EXCEPT ![k].results[idx] =
                        [defined |-> TRUE, url |-> W.runs[k].items[idx].url,
                         success |-> TRUE, name |-> name, error |-> ""]])
    IN Emit(W1, k, idx, "success", 100, message)

\* A claim that moves the cursor past the index after the one it takes.
ClaimSkipping(W, k, idx) ==
    World(W.jobs, [W.runs EXCEPT ![k].currentIndex = idx + 2,
                                 ![k].claimed[idx] = @ + 1])

\* const itemIndex = currentIndex++
Claim(W, k, idx) ==
    World(W.jobs, [W.runs EXCEPT ![k].currentIndex = idx + 1,
                                 ![k].claimed[idx] = @ + 1])

\* while (currentIndex < items.length): worker w claims the next index and
\* runs until its first await (a backend call) or until the list is
\* exhausted.  An invalid reference is failed without suspending.
processItem(W, k, w) ==
    LET claimAndRun(V) ==
        LET run == V.runs[k]
            idx == run.currentIndex
        IN IF idx < Length(run.items)
           THEN LET item == run.items[idx]
                    W1 == Claim(V, k, idx)
                IN IF ~item.parsed.ok
                   THEN Fail(W1, k, w, idx, "Invalid Google Drive URL")
                   ELSE LET W2 == Emit(W1, k, idx, "processing", 0, Msg("Starting...", 0, 0))
                            pc == IF item.parsed.type = "file"
                                  THEN "copyFile.getFileMetadata"
                                  ELSE "copyFolder.listFilesInFolder"
                        IN World(W2.jobs,
                                 [W2.runs EXCEPT ![k].workers[w] = Awaiting(pc, idx, 0, 0),
                                                 ![k].calls[idx] = @ + 1,
                                                 ![k].into[idx] = run.targetFolderId])
           ELSE World(V.jobs, [V.runs EXCEPT ![k].workers[w] = Returned])
    IN CHOOSE result \in {claimAndRun(V) : V \in {W}} : TRUE

RECURSIVE StartWorkers(_, _, _)

\* Workers that start in a later turn of the event loop.
StartWorkersLater(W, k, w) == W

\* Array.from(..., () => processItem()): the workers start one after the
\* other, each running to its first await before the next starts.
StartWorkers(W, k, w) ==
    IF w > Len(W.runs[k].workers) THEN W
    ELSE StartWorkers(processItem(W, k, w), k, w + 1)

AllReturned(run) == \A w \in DOMAIN run.workers : run.workers[w].pc = "returned"

\* processJob's call of batchCopy, up to await Promise.all(workers).  The run
\* keeps the jobId its progress sink has closed over.
batchCopy(W, k, jobId, urls, targetFolderId, concurrency) ==
    LET safe == safeConcurrency(concurrency)
        n == Length(urls)
        count == WorkerCount(safe, n)
        run == [jobId |-> jobId,
                urls |-> urls,
                targetFolderId |-> targetFolderId,
                concurrency |-> concurrency,
                safeConcurrency |-> safe,
                items |-> [i \in DOMAIN urls |->
                             [url |-> urls[i], index |-> i,
                              parsed |-> parseGoogleDriveUrl(urls[i])]],
                currentIndex |-> 0,
                results |-> [i \in DOMAIN urls |-> NoResult],
                workers |-> [w \in 1..count |-> Awaiting("starting", 0, 0, 0)],
                events |-> [i \in DOMAIN urls |-> << >>],
                claimed |-> [i \in DOMAIN urls |-> 0],
                calls |-> [i \in DOMAIN urls |-> 0],
                faults |-> [i \in DOMAIN urls |-> 0],
                into |-> [i \in DOMAIN urls |-> ""],
                copied |-> [i \in DOMAIN urls |-> << >>],
                orphanedAt |-> -1,
                phase |-> "running"]
        W1 == StartWorkers(World(W.jobs, (k :> run) @@ W.runs), k, 1)
    IN World(W1.jobs,
             [W1.runs EXCEPT ![k].phase =
                 IF AllReturned(W1.runs[k]) THEN "joined" ELSE "running"])

\* A completion step that writes the status without looking the record up.
MarkCompleteUnchecked(jobsMap, jobId) ==
    IF jobId \in DOMAIN jobsMap
    THEN [jobsMap EXCEPT ![jobId].status = "complete"]
    ELSE (jobId :> [id |-> jobId, status |-> "complete", totalItems |-> 0,
                    completedItems |-> 0, items |-> << >>,
                    targetFolderId |-> "", createdAt |-> 0]) @@ jobsMap

\* processJob after await batchCopy: mark the job complete (if it is still
\* in the registry).
MarkComplete(jobsMap, jobId) ==
    IF jobId \in DOMAIN jobsMap
    THEN [jobsMap EXCEPT ![jobId].status = "complete"]
    ELSE jobsMap

\* A worker has run to its next suspension point.  When it was the last one
\* to return, Promise.all resolves and processJob's continuation runs in the
\* same turn of the event loop.
Settle(W, k) ==
    IF AllReturned(W.runs[k])
    THEN World(MarkComplete(W.jobs, W.runs[k].jobId),
               [W.runs EXCEPT ![k].phase = "done"])
    ELSE W

----------------------------------------------------------------------------
(* Operations *)

\* ret holds what the step that led to the state returned to its caller;
\* a step of the engine returns to nobody.
NoReturn == [op |-> "none"]

\* No snapshot is kept.
NoSnapshot == [taken |-> FALSE]

\* The page before pollStatus is called: no fetch is under way and no timer
\* is set.
IdleClient ==
    [polling |-> FALSE, jobId |-> << >>, scheduled |-> FALSE, delay |-> 0,
     state |-> "processing", jobStatus |-> "none", error |-> ""]

Init ==
    /\ jobs = << >>
    /\ runs = << >>
    /\ now = 0
    /\ nextRun = 1
    /\ ret = NoReturn
    /\ held = NoSnapshot
    /\ client = IdleClient

\* A continuation of processJob is queued: nothing but the caller of
\* createJob runs before it.
Busy == \E k \in DOMAIN runs : runs[k].phase = "joined"

Remove(map, key) == [x \in (DOMAIN map) \ {key} |-> map[x]]

\* The ids createJob has returned so far.
Issued == {runs[k].jobId : k \in DOMAIN runs}

\* The ids a caller asks about: the ids it was given, or an id of its own
\* making while it was given none.
RequestIds == IF Issued = {} THEN {NoSuchId} ELSE Issued

\* The array job.items is one object: the snapshot getJob returns holds the
\* array of the record (live), and keeps it when the record leaves the
\* registry, after which no sink reaches the array any more.
Detach(snapshot, jobsMap, gone) ==
    IF snapshot.taken /\ snapshot.items.live /\ snapshot.id \in gone
       /\ snapshot.id \in DOMAIN jobsMap
    THEN [snapshot EXCEPT !.items = [live |-> FALSE,
                                     value |-> jobsMap[snapshot.id].items]]
    ELSE snapshot

\* How createJob gets its folder: given by the caller, or created through
\* the backend, which may fail.
FolderInputs == {"given", "created", "createFolder fails"}

\* A resolution that goes on without a folder when createFolder fails.
ResolveFolderSwallowsFailure(folder) ==
    IF folder = "createFolder fails" THEN [threw |-> FALSE, folderId |-> ""]
    ELSE [threw |-> FALSE, folderId |-> folder]

\* createJob, lines 39-45: the caller's folder id, or the id createFolder
\* returns; createFolder's exception leaves createJob.
ResolveFolder(folder) ==
    IF folder = "createFolder fails" THEN [threw |-> TRUE, folderId |-> ""]
    ELSE [threw |-> FALSE, folderId |-> folder]

\* createJob from the registration of the job to its return: the engine is
\* started and runs up to its first suspension before createJob returns.
createJob(W, k, jobId, urls, folderId, concurrency, createdAt) ==
    batchCopy(World((jobId :> NewJob(jobId, urls, folderId, createdAt)) @@ W.jobs,
                    W.runs),
              k, jobId, urls, folderId, concurrency)

\* A direct call of jobService.createJob; random is what Math.random gives
\* generateJobId.
CreateJob(urls, folder, concurrency, random) ==
    /\ ~Busy
    /\ IF ResolveFolder(folder).threw
       THEN /\ ret' = [op |-> "createJob", threw |-> TRUE]
            /\ UNCHANGED <<jobs, runs, nextRun, held>>
       ELSE LET jobId == generateJobId(now, random)
                W == createJob(World(jobs, runs), nextRun, jobId, urls,
                               ResolveFolder(folder).folderId, concurrency, now)
            IN /\ jobs' = W.jobs
               /\ runs' = W.runs
               /\ nextRun' = nextRun + 1
               /\ held' = Detach(held, jobs, {jobId})
               /\ ret' = [op |-> "createJob", threw |-> FALSE, jobId |-> jobId]
    /\ UNCHANGED <<now, client>>

\* The values the field urls of a request body can have: an array, a value
\* that is no array, or nothing.
JsonArray(arr) == [type |-> "array", value |-> arr]

JsonString(str) == [type |-> "string", value |-> str]

JsonUndefined == [type |-> "undefined", value |-> << >>]

BodyUrls == {JsonArray(arr) : arr \in UrlLists} \cup {JsonString(UrlFile), JsonUndefined}

\* A validation that lets the empty array through.
ValidUrlsAnyArray(urls) == urls.type = "array"

\* The negation of !urls || !Array.isArray(urls) || urls.length === 0
ValidUrls(urls) == urls.type = "array" /\ Length(urls.value) > 0

\* createJob, line 41: createFolder is called when no folder id was given.
CallsCreateFolder(folder) == folder # "given"

\* POST /api/copy.  With the response ret holds whether the request got as
\* far as the backend's createFolder.
PostCopy(urls, folder, concurrency, random) ==
    /\ ~Busy
    /\ IF ~ValidUrls(urls)
       THEN /\ ret' = [op |-> "POST", code |-> 400, createFolder |-> FALSE]
            /\ UNCHANGED <<jobs, runs, nextRun, held>>
       ELSE IF ResolveFolder(folder).threw
       THEN /\ ret' = [op |-> "POST", code |-> 500, createFolder |-> TRUE]
            /\ UNCHANGED <<jobs, runs, nextRun, held>>
       ELSE LET jobId == generateJobId(now, random)
                W == createJob(World(jobs, runs), nextRun, jobId, urls.value,
                               ResolveFolder(folder).folderId,
                               safeConcurrency(concurrency), now)
            IN /\ jobs' = W.jobs
               /\ runs' = W.runs
               /\ nextRun' = nextRun + 1
               /\ held' = Detach(held, jobs, {jobId})
               /\ ret' = [op |-> "POST", code |-> 200, jobId |-> jobId,
                          status |-> "processing",
                          targetFolderId |-> W.jobs[jobId].targetFolderId,
                          createFolder |-> CallsCreateFolder(folder)]
    /\ UNCHANGED <<now, client>>

\* processJob resumes after await batchCopy when every worker had already
\* returned before createJob did.
ProcessJobContinues(k) ==
    /\ k \in DOMAIN runs
    /\ runs[k].phase = "joined"
    /\ jobs' = MarkComplete(jobs, runs[k].jobId)
    /\ runs' = [runs EXCEPT ![k].phase = "done"]
    /\ ret' = NoReturn
    /\ UNCHANGED <<now, nextRun, held, client>>

\* The step a worker takes when its awaited backend call comes back.
WorkerStep(k, W) ==
    \E W1 \in {Settle(V, k) : V \in {W}} :
       /\ jobs' = W1.jobs
       /\ runs' = W1.runs
       /\ ret' = NoReturn
       /\ UNCHANGED <<now, nextRun, held, client>>

AwaitingAt(k, w, pc) ==
    /\ ~Busy
    /\ k \in DOMAIN runs
    /\ w \in DOMAIN runs[k].workers
    /\ runs[k].workers[w].pc = pc

\* copyFile: initialize and getFileMetadata have returned; onProgress(10).
FileProgressAfterMetadata == 10
FileMetadataReturns(k, w) ==
    /\ AwaitingAt(k, w, "copyFile.getFileMetadata")
    /\ LET idx == runs[k].workers[w].item
           W1 == Emit(World(jobs, runs), k, idx, "processing",
                      FileProgressAfterMetadata, Msg("Copying file...", 0, 0))
       IN WorkerStep(k, SetWorker(W1, k, w, Awaiting("copyFile.copy", idx, 0, 0)))

\* copyFile: drive.files.copy has returned; onProgress(90).
FileProgressAfterCopy == 90
FileCopyReturns(k, w) ==
    /\ AwaitingAt(k, w, "copyFile.copy")
    /\ LET idx == runs[k].workers[w].item
           W1 == Emit(World(jobs, runs), k, idx, "processing",
                      FileProgressAfterCopy, Msg("Copying file...", 0, 0))
       IN WorkerStep(k, SetWorker(W1, k, w, Awaiting("copyFile.permissions", idx, 0, 0)))

\* copyFile: permissions.create has returned; onProgress(100); copyFile
\* returns and processItem reports the success, then claims the next item.
FileProgressDone == 100
FilePermissionsReturns(k, w) ==
    /\ AwaitingAt(k, w, "copyFile.permissions")
    /\ LET idx == runs[k].workers[w].item
           W1 == Emit(World(jobs, runs), k, idx, "processing",
                      FileProgressDone, Msg("Copying file...", 0, 0))
           W2 == ItemSucceeded(W1, k, idx, "name", Msg("Copied", 0, 0))
       IN WorkerStep(k, processItem(W2, k, w))

\* The share that is left instead of the share that is done.
FolderProgressRemaining(current, total) == ((total - current) * 100) \div total

\* Math.floor((current / total) * 100)
FolderProgress(current, total) ==
    CHOOSE progress \in {MathFloor(x) : x \in {Times100(Divide(current, total))}} : TRUE

\* The place of a folder in the tree of the item's source folder: the
\* numbers of the children that lead to it (<< >> is the source folder).
PathOfFolder(frames) == [i \in 1..Len(frames) |-> frames[i].cur]

\* History: what the backend has created for item idx so far, in order (a
\* folder by createFolder, a file by copyFile).
Copied(W, k, idx, path, kind) ==
    World(W.jobs, [W.runs EXCEPT ![k].copied[idx] =
                      Append(@, [path |-> path, kind |-> kind])])

\* The body of copyFolder's for loop up to its await, for child number cur:
\* onProgress?.(i + 1, files.length, file.name), which only the copyFolder
\* that processItem called was given, then copyFolder for a folder
\* (suspended in its own first calls) or copyFile for a file.
StartChild(W, k, w, idx, cur, files, frames) ==
    LET W1 == IF frames = << >>
              THEN Emit(W, k, idx, "processing", FolderProgress(cur, Len(files)),
                        Msg("Copying", cur, Len(files)))
              ELSE W
    IN IF files[cur] = "folder"
       THEN SetWorker(W1, k, w,
                      AwaitingIn("copyFolder.listFilesInFolder", idx, 0, << >>,
                                 Append(frames, Frame(files, cur))))
       ELSE SetWorker(W1, k, w, AwaitingIn("copyFolder.child", idx, cur, files, frames))

RECURSIVE ChildDone(_, _, _, _, _, _, _)

\* return { id, name, filesCopied }: to processItem, which reports the
\* success with the count and claims the next item, or to the copyFolder
\* that awaits this one, which drops the value.
FolderDone(W, k, w, idx, filesCopied, frames) ==
    IF frames = << >>
    THEN processItem(ItemSucceeded(W, k, idx, "name",
                                   Msg("Copied folder", filesCopied, 0)),
                     k, w)
    ELSE LET parent == frames[Len(frames)]
         IN ChildDone(W, k, w, idx, parent.cur, parent.files,
                      SubSeq(frames, 1, Len(frames) - 1))

\* filesCopied++ and the next turn of the for loop: after child number cur,
\* filesCopied is cur.
ChildDone(W, k, w, idx, cur, files, frames) ==
    IF cur < Len(files)
    THEN StartChild(W, k, w, idx, cur + 1, files, frames)
    ELSE FolderDone(W, k, w, idx, cur, frames)

\* copyFolder: the source folder's metadata, the new folder and the list of
\* its children (files) have come back.  With no child copyFolder returns
\* at once.
ListFilesInFolderReturns(k, w, files) ==
    /\ AwaitingAt(k, w, "copyFolder.listFilesInFolder")
    /\ LET me == runs[k].workers[w]
           W0 == Copied(World(jobs, runs), k, me.item, PathOfFolder(me.frames), "folder")
       IN IF files = << >>
          THEN WorkerStep(k, FolderDone(W0, k, w, me.item, 0, me.frames))
          ELSE WorkerStep(k, StartChild(W0, k, w, me.item, 1, files, me.frames))

\* The same for a folder that holds total files and no folder.
FolderListReturns(k, w, total) == ListFilesInFolderReturns(k, w, FilesOnly(total))

\* copyFolder: the copy of the file that is child number cur has come back.
FolderChildReturns(k, w) ==
    /\ AwaitingAt(k, w, "copyFolder.child")
    /\ LET me == runs[k].workers[w]
           W0 == Copied(World(jobs, runs), k, me.item,
                        Append(PathOfFolder(me.frames), me.cur), "file")
       IN WorkerStep(k, ChildDone(W0, k, w, me.item, me.cur, me.files, me.frames))

BackendCalls == {"copyFile.getFileMetadata", "copyFile.copy", "copyFile.permissions",
                 "copyFolder.listFilesInFolder", "copyFolder.child"}

\* A copyFolder that passes over a child whose copy failed.
BackendFailsSkippingChild(k, w) ==
    /\ AwaitingAt(k, w, "copyFolder.child")
    /\ LET me == runs[k].workers[w]
           W0 == World(jobs, [runs EXCEPT ![k].faults[me.item] = @ + 1])
       IN WorkerStep(k, ChildDone(W0, k, w, me.item, me.cur, me.files, me.frames))

\* The awaited backend call fails: copyFile / copyFolder rethrow it as an
\* AppError, processItem's catch reports the item and claims the next one.
BackendFails(k, w) ==
    /\ ~Busy
    /\ k \in DOMAIN runs
    /\ w \in DOMAIN runs[k].workers
    /\ runs[k].workers[w].pc \in BackendCalls
    /\ LET me == runs[k].workers[w]
           reason == IF me.pc \in {"copyFolder.listFilesInFolder", "copyFolder.child"}
                     THEN "Failed to copy folder" ELSE "Failed to copy file"
           W0 == World(jobs, [runs EXCEPT ![k].faults[me.item] = @ + 1])
       IN WorkerStep(k, Fail(W0, k, w, me.item, reason))

\* A lookup that takes the record out of the registry.
getJobTakes(jobsMap, jobId) ==
    IF jobId \in DOMAIN jobsMap
    THEN [jobs |-> Remove(jobsMap, jobId), found |-> TRUE, job |-> jobsMap[jobId]]
    ELSE [jobs |-> jobsMap, found |-> FALSE, job |-> << >>]

\* jobService.getJob: a new object with the record's fields, or null.  jobs
\* is the registry the call leaves behind.
getJob(jobsMap, jobId) ==
    IF jobId \in DOMAIN jobsMap
    THEN [jobs |-> jobsMap, found |-> TRUE, job |-> jobsMap[jobId]]
    ELSE [jobs |-> jobsMap, found |-> FALSE, job |-> << >>]

\* A call of getJob, as GET /api/copy/status/[jobId] makes it: ret holds the
\* snapshot and the status code the route answers with (the snapshot as
\* JSON, or 404).
GetJob(j) ==
    /\ LET r == getJob(jobs, j)
       IN /\ jobs' = r.jobs
          /\ ret' = [op |-> "getJob", jobId |-> j,
                     snapshot |-> [found |-> r.found, job |-> r.job],
                     code |-> IF r.found THEN 200 ELSE 404]
    /\ UNCHANGED <<runs, now, nextRun, held, client>>

\* The object getJob returns, in the hands of a caller that keeps it: the
\* scalar fields are copies, items is the record's own array (line 84).
\* returned is the content the array had when getJob returned.
Snapshot(job) ==
    [taken |-> TRUE,
     id |-> job.id,
     status |-> job.status,
     totalItems |-> job.totalItems,
     completedItems |-> job.completedItems,
     items |-> [live |-> TRUE, value |-> << >>],
     targetFolderId |-> job.targetFolderId,
     createdAt |-> job.createdAt,
     returned |-> job.items]

\* The items a kept snapshot holds now.
SnapshotItems(snapshot, jobsMap) ==
    IF snapshot.items.live THEN jobsMap[snapshot.id].items
    ELSE snapshot.items.value

\* A caller calls getJob and keeps what it returned.
HoldSnapshot(j) ==
    /\ ~held.taken
    /\ j \in DOMAIN jobs
    /\ held' = Snapshot(jobs[j])
    /\ ret' = NoReturn
    /\ UNCHANGED <<jobs, runs, now, nextRun, client>>

\* A deletion that empties the registry.
deleteJobClearsRegistry(jobsMap, jobId) ==
    [jobs |-> << >>, deleted |-> jobId \in DOMAIN jobsMap]

\* jobService.deleteJob: jobs.delete(jobId)
deleteJob(jobsMap, jobId) ==
    [jobs |-> IF jobId \in DOMAIN jobsMap THEN Remove(jobsMap, jobId) ELSE jobsMap,
     deleted |-> jobId \in DOMAIN jobsMap]

\* History: a run whose record leaves the registry before the run is over
\* keeps the number of items it had claimed by then (-1 otherwise).
Orphan(runsMap, gone) ==
    [k \in DOMAIN runsMap |->
        IF runsMap[k].jobId \in gone /\ runsMap[k].phase = "running"
        THEN [runsMap[k] EXCEPT !.orphanedAt = runsMap[k].currentIndex]
        ELSE runsMap[k]]

\* A call of deleteJob, as DELETE /api/copy/status/[jobId] makes it: ret
\* holds the flag deleteJob returns and the status code the route answers
\* with.
DeleteJob(j) ==
    /\ ~Busy
    /\ LET r == deleteJob(jobs, j)
       IN /\ jobs' = r.jobs
          /\ runs' = Orphan(runs, (DOMAIN jobs) \ (DOMAIN r.jobs))
          /\ held' = Detach(held, jobs, (DOMAIN jobs) \ (DOMAIN r.jobs))
          /\ ret' = [op |-> "deleteJob", jobId |-> j, deleted |-> r.deleted,
                     code |-> IF r.deleted THEN 200 ELSE 404]
    /\ UNCHANGED <<now, nextRun, client>>

\* A collection that looks at the age alone.
ClearedByAge(jobsMap, maxAgeMs, t) ==
    {id \in DOMAIN jobsMap : t - jobsMap[id].createdAt > maxAgeMs}

\* jobService.clearOldJobs
Cleared(jobsMap, maxAgeMs, t) ==
    {id \in DOMAIN jobsMap :
        /\ jobsMap[id].status = "complete"
        /\ t - jobsMap[id].createdAt > maxAgeMs}

clearOldJobs(jobsMap, maxAgeMs, t) ==
    LET gone == Cleared(jobsMap, maxAgeMs, t)
    IN [jobs |-> [x \in (DOMAIN jobsMap) \ gone |-> jobsMap[x]],
        cleared |-> Cardinality(gone)]

ClearOldJobs(maxAgeMs) ==
    /\ ~Busy
    /\ LET r == clearOldJobs(jobs, maxAgeMs, now)
       IN /\ jobs' = r.jobs
          /\ runs' = Orphan(runs, (DOMAIN jobs) \ (DOMAIN r.jobs))
          /\ held' = Detach(held, jobs, (DOMAIN jobs) \ (DOMAIN r.jobs))
          /\ ret' = [op |-> "clearOldJobs", cleared |-> r.cleared]
    /\ UNCHANGED <<now, nextRun, client>>

\* Time passes.
Tick ==
    /\ ~Busy
    /\ now < MaxTime
    /\ now' = now + 1
    /\ ret' = NoReturn
    /\ UNCHANGED <<jobs, runs, nextRun, held, client>>

\* The engine's steps: the backend calls in flight come back.
Engine ==
    \/ \E k \in DOMAIN runs : ProcessJobContinues(k)
    \/ \E k \in DOMAIN runs : \E w \in DOMAIN runs[k].workers : FileMetadataReturns(k, w)
    \/ \E k \in DOMAIN runs : \E w \in DOMAIN runs[k].workers : FileCopyReturns(k, w)
    \/ \E k \in DOMAIN runs : \E w \in DOMAIN runs[k].workers : FilePermissionsReturns(k, w)
    \/ \E k \in DOMAIN runs : \E w \in DOMAIN runs[k].workers, total \in 0..MaxChildren :
          FolderListReturns(k, w, total)
    \/ \E k \in DOMAIN runs : \E w \in DOMAIN runs[k].workers : FolderChildReturns(k, w)
    \/ \E k \in DOMAIN runs : \E w \in DOMAIN runs[k].workers : BackendFails(k, w)

\* The random suffix of an id that was not issued before: Spec follows the
\* runs in which generateJobId returns distinct ids.
FreshRandom(random) ==
    /\ generateJobId(now, random) \notin Issued
    /\ \A other \in Randoms :
          generateJobId(now, other) \notin Issued => random <= other

Next ==
    \/ \E urls \in UrlLists, f \in FolderInputs, c \in ConcurrencyInputs,
          random \in Randoms :
          nextRun <= MaxJobs /\ FreshRandom(random) /\ CreateJob(urls, f, c, random)
    \/ \E urls \in BodyUrls, f \in FolderInputs, c \in ConcurrencyInputs,
          random \in Randoms :
          nextRun <= MaxJobs /\ FreshRandom(random) /\ PostCopy(urls, f, c, random)
    \/ Engine
    \/ \E j \in RequestIds : GetJob(j)
    \/ \E j \in RequestIds : DeleteJob(j)
    \/ \E a \in 0..MaxTime : ClearOldJobs(a)
    \/ Tick

Spec == Init /\ [][Next]_vars

----------------------------------------------------------------------------
(* clearOldJobs as a function of the registry's content.  The registry     *)
(* starts with any jobs of type CopyJob: each status of JobStatus          *)
(* ('error' is the one processJob's catch block assigns), each creation    *)
(* time up to now.                                                         *)

JobStatuses == {"processing", "complete", "error"}

\* A one-item job record in the given status.
JobInStatus(jobId, status, createdAt) ==
    [NewJob(jobId, (0 :> UrlFile), "given", createdAt) EXCEPT
        !.status = status,
        !.completedItems = IF status = "complete" THEN 1 ELSE 0,
        !.items = [i \in {0} |->
                     [@[i] EXCEPT !.status = IF status = "complete"
                                            THEN "success" ELSE "pending"]]]

\* The ids of the jobs created at the times 0..MaxTime.
RegistryIds == {generateJobId(t, random) : t \in 0..MaxTime, random \in Randoms}

Registries ==
    UNION {[ids -> JobStatuses] :
              ids \in {x \in SUBSET RegistryIds : Cardinality(x) <= MaxGcJobs}}

InitGc ==
    /\ now \in 0..MaxTime
    /\ \E reg \in Registries :
          /\ \A id \in DOMAIN reg : id.timestamp <= now
          /\ jobs = [id \in DOMAIN reg |-> JobInStatus(id, reg[id], id.timestamp)]
    /\ runs = << >>
    /\ nextRun = 1
    /\ ret = NoReturn
    /\ held = NoSnapshot
    /\ client = IdleClient

NextGc ==
    \/ \E a \in 0..MaxTime : ClearOldJobs(a)
    \/ Tick

SpecGc == InitGc /\ [][NextGc]_vars

\* A caller that keeps a snapshot while the job it is of goes on, copied by
\* one or two workers.
NextSnapshot ==
    \/ \E urls \in UrlLists, c \in {Num(1), Num(2)}, random \in Randoms :
          nextRun <= MaxJobs /\ FreshRandom(random)
             /\ CreateJob(urls, "given", c, random)
    \/ Engine
    \/ \E j \in RequestIds : HoldSnapshot(j)
    \/ \E j \in RequestIds : DeleteJob(j)

SpecSnapshot == Init /\ [][NextSnapshot]_vars

\* Several jobs of one item each, whose ids are whatever generateJobId makes
\* of the clock and of Math.random.
OneUrlLists == [{0} -> Urls]

NextPair ==
    \/ \E urls \in OneUrlLists, random \in Randoms :
          nextRun <= MaxPairJobs /\ CreateJob(urls, "given", Num(1), random)
    \/ Engine
    \/ Tick

SpecPair == Init /\ [][NextPair]_vars

\* A backend call that does not return.  The await of the call (lines 263
\* and 291) is the worker's only way on: the worker stays where it is.
BackendHangs(k, w) ==
    /\ ~Busy
    /\ k \in DOMAIN runs
    /\ w \in DOMAIN runs[k].workers
    /\ runs[k].workers[w].pc \in BackendCalls
    /\ runs' = [runs EXCEPT ![k].workers[w].pc = "hung"]
    /\ ret' = NoReturn
    /\ UNCHANGED <<jobs, now, nextRun, held, client>>

\* The backend call worker w of run k awaits comes back, with a result or
\* with a failure.
BackendReturns(k, w) ==
    \/ FileMetadataReturns(k, w)
    \/ FileCopyReturns(k, w)
    \/ FilePermissionsReturns(k, w)
    \/ \E total \in 0..MaxChildren : FolderListReturns(k, w, total)
    \/ FolderChildReturns(k, w)
    \/ BackendFails(k, w)

NextHang ==
    \/ \E urls \in UrlLists, c \in {Num(1), Num(2)}, random \in Randoms :
          nextRun <= MaxJobs /\ FreshRandom(random)
             /\ CreateJob(urls, "given", c, random)
    \/ Engine
    \/ \E k \in DOMAIN runs : \E w \in DOMAIN runs[k].workers : BackendHangs(k, w)

\* The event loop runs every continuation that is ready: a queued
\* continuation of processJob runs, and a worker whose call can come back
\* is resumed.  A call that hangs never comes back.
SpecHang ==
    /\ Init
    /\ [][NextHang]_vars
    /\ WF_vars(\E k \in 1..MaxJobs : ProcessJobContinues(k))
    /\ \A k \in 1..MaxJobs, w \in 1..MaxItems : WF_vars(BackendReturns(k, w))

----------------------------------------------------------------------------
(* parseGoogleDriveUrl as a function of its argument: the strings of up to *)
(* MaxUrlPieces pieces, among them runs of 1 and of 24 characters.         *)

ParserPieces ==
    {" ", "https://", DriveFile, DriveOpen, IdEquals, DriveUc, DriveFolder,
     "a", Run24, "/view"}

ParserInputs == UNION {[1..n -> ParserPieces] : n \in 0..MaxUrlPieces}

InitParse ==
    /\ jobs = << >>
    /\ runs = << >>
    /\ now = 0
    /\ nextRun = 1
    /\ ret \in {[op |-> "input", url |-> url] : url \in ParserInputs}
    /\ held = NoSnapshot
    /\ client = IdleClient

\* A call of parseGoogleDriveUrl.
ParseGoogleDriveUrl ==
    /\ ret.op = "input"
    /\ ret' = [op |-> "parseGoogleDriveUrl", url |-> ret.url,
               parsed |-> parseGoogleDriveUrl(ret.url)]
    /\ UNCHANGED <<jobs, runs, now, nextRun, held, client>>

NextParse == ParseGoogleDriveUrl

SpecParse == InitParse /\ [][NextParse]_vars

----------------------------------------------------------------------------
(* The polling client (page.tsx, pollStatus).  A response is what fetch    *)
(* resolves with: the route's status code and, with 200, the status of the *)
(* snapshot; a transport fault is fetch's rejection.                       *)

POLL_INTERVAL_MS == 500
POLL_ERROR_RETRY_MS == 2000

TransportFault == [fault |-> TRUE, code |-> 0, status |-> "none"]

Response(code, status) == [fault |-> FALSE, code |-> code, status |-> status]

\* A poll that sets the timer again whatever it has seen.
pollNeverStops(c, res) ==
    IF res.fault \/ res.code # 200
    THEN [c EXCEPT !.scheduled = TRUE, !.delay = POLL_ERROR_RETRY_MS]
    ELSE [c EXCEPT !.jobStatus = res.status, !.scheduled = TRUE,
                   !.delay = POLL_INTERVAL_MS]

\* poll, from the settling of its fetch on: the catch block takes the
\* rejection of fetch and the throw of !res.ok alike.
poll(c, res) ==
    IF res.fault \/ res.code # 200
    THEN [c EXCEPT !.scheduled = TRUE, !.delay = POLL_ERROR_RETRY_MS]
    ELSE LET c1 == [c EXCEPT !.jobStatus = res.status]
         IN CASE res.status = "complete" ->
                   [c1 EXCEPT !.state = "complete", !.scheduled = FALSE]
              [] res.status = "error" ->
                   [c1 EXCEPT !.error = "Copy job failed", !.state = "idle",
                              !.scheduled = FALSE]
              [] OTHER ->
                   [c1 EXCEPT !.scheduled = TRUE, !.delay = POLL_INTERVAL_MS]

\* pollStatus(jobId): the first poll() is called at once, its fetch is under
\* way.
PollStatus(j) ==
    /\ ~client.polling
    /\ client' = [IdleClient EXCEPT !.polling = TRUE, !.jobId = j,
                                    !.scheduled = TRUE]
    /\ ret' = NoReturn
    /\ UNCHANGED <<jobs, runs, now, nextRun, held>>

\* The fetch of a poll is answered by GET /api/copy/status/[jobId].
PollResponds ==
    /\ ~Busy
    /\ client.polling /\ client.scheduled
    /\ LET r == getJob(jobs, client.jobId)
           res == IF r.found THEN Response(200, r.job.status)
                  ELSE Response(404, "none")
       IN /\ jobs' = r.jobs
          /\ client' = poll(client, res)
          /\ ret' = [op |-> "poll", jobId |-> client.jobId, res |-> res]
    /\ UNCHANGED <<runs, now, nextRun, held>>

\* The fetch of a poll is rejected: the request does not reach the route.
PollFaults ==
    /\ ~Busy
    /\ client.polling /\ client.scheduled
    /\ client' = poll(client, TransportFault)
    /\ ret' = [op |-> "poll", jobId |-> client.jobId, res |-> TransportFault]
    /\ UNCHANGED <<jobs, runs, now, nextRun, held>>

\* The registry the page finds: empty, or holding one job of an earlier
\* submission in any status of JobStatus.
InitPoll ==
    /\ now = 0
    /\ \/ jobs = << >>
       \/ \E status \in JobStatuses :
             jobs = (generateJobId(0, MaxRandom) :>
                        JobInStatus(generateJobId(0, MaxRandom), status, 0))
    /\ runs = << >>
    /\ nextRun = 1
    /\ ret = NoReturn
    /\ held = NoSnapshot
    /\ client = IdleClient

\* The page submits a job or knows one, polls it, and the job may be deleted
\* meanwhile.
NextPoll ==
    \/ \E urls \in OneUrlLists, c \in {Num(1), NaN}, random \in Randoms :
          nextRun <= MaxJobs /\ FreshRandom(random)
             /\ PostCopy(JsonArray(urls), "given", c, random)
    \/ Engine
    \/ \E j \in DOMAIN jobs : PollStatus(j)
    \/ PollResponds
    \/ PollFaults
    \/ \E j \in DOMAIN jobs : DeleteJob(j)

\* The event loop as in SpecFair; a timer that is set fires, and a fetch is
\* answered in the end.
SpecPoll ==
    /\ InitPoll
    /\ [][NextPoll]_vars
    /\ WF_vars(\E k \in 1..MaxJobs : ProcessJobContinues(k))
    /\ \A k \in 1..MaxJobs, w \in 1..MaxItems : WF_vars(BackendReturns(k, w))
    /\ WF_vars(PollResponds)

\* Jobs of every batch size and every requested concurrency, whose backend
\* calls all come back.
NextFair ==
    \/ \E urls \in UrlLists, c \in ConcurrencyInputs, random \in Randoms :
          nextRun <= MaxJobs /\ FreshRandom(random)
             /\ CreateJob(urls, "given", c, random)
    \/ Engine

\* The event loop resumes every worker whose call has come back and runs the
\* continuation of processJob once it is queued.
SpecFair ==
    /\ Init
    /\ [][NextFair]_vars
    /\ WF_vars(\E k \in 1..MaxJobs : ProcessJobContinues(k))
    /\ \A k \in 1..MaxJobs, w \in 1..MaxItems : WF_vars(BackendReturns(k, w))

\* Lists long enough for a worker to take two items while another is held
\* up in a call that does not return.
HangUrlLists == UNION {[0..(n - 1) -> Urls] : n \in 0..MaxHangItems}

NextBlocked ==
    \/ \E urls \in HangUrlLists, random \in Randoms :
          nextRun <= MaxJobs /\ FreshRandom(random)
             /\ CreateJob(urls, "given", Num(2), random)
    \/ Engine
    \/ \E k \in DOMAIN runs : \E w \in DOMAIN runs[k].workers : BackendHangs(k, w)

\* The event loop as in SpecHang.
SpecBlocked ==
    /\ Init
    /\ [][NextBlocked]_vars
    /\ WF_vars(\E k \in 1..MaxJobs : ProcessJobContinues(k))
    /\ \A k \in 1..MaxJobs, w \in 1..MaxItems : WF_vars(BackendReturns(k, w))

\* The listings listFilesInFolder can return: up to MaxTreeChildren
\* children, each a file or a folder.
Listings == UNION {[1..n -> {"file", "folder"}] : n \in 0..MaxTreeChildren}

\* The listings of a folder that lies depth folders below the source
\* folder: a folder below the source folder has up to MaxChildren children,
\* and the folders at the deepest level hold files alone.
TreeListings(depth) ==
    {files \in Listings :
        /\ depth >= 1 => Len(files) <= MaxChildren
        /\ depth + 1 >= MaxDepth => \A i \in DOMAIN files : files[i] = "file"}

\* One folder item, copied by one worker: the source folder is a tree of
\* files and folders up to MaxDepth levels deep, and any backend call may
\* fail.
NextTree ==
    \/ \E random \in Randoms :
          nextRun <= MaxJobs /\ FreshRandom(random)
             /\ CreateJob((0 :> UrlFolder), "given", Num(1), random)
    \/ \E k \in DOMAIN runs : \E w \in DOMAIN runs[k].workers :
          \E files \in TreeListings(Len(runs[k].workers[w].frames)) :
             ListFilesInFolderReturns(k, w, files)
    \/ \E k \in DOMAIN runs : \E w \in DOMAIN runs[k].workers : FolderChildReturns(k, w)
    \/ \E k \in DOMAIN runs : \E w \in DOMAIN runs[k].workers : BackendFails(k, w)

SpecTree == Init /\ [][NextTree]_vars

\* One folder item, copied by one worker: the source folder holds up to
\* MaxFolderFiles files (listFilesInFolder asks for a page of up to 1000).
NextFolder ==
    \/ \E random \in Randoms :
          nextRun <= MaxJobs /\ FreshRandom(random)
             /\ CreateJob((0 :> UrlFolder), "given", Num(1), random)
    \/ \E k \in DOMAIN runs : \E w \in DOMAIN runs[k].workers :
          \E total \in 0..MaxFolderFiles : FolderListReturns(k, w, total)
    \/ \E k \in DOMAIN runs : \E w \in DOMAIN runs[k].workers : FolderChildReturns(k, w)
    \/ \E k \in DOMAIN runs : \E w \in DOMAIN runs[k].workers : BackendFails(k, w)

SpecFolder == Init /\ [][NextFolder]_vars

\* The updates a progress sink delivers: the first event of an item and its
\* two terminal events.
SinkUpdates ==
    {[status |-> "processing", progress |-> 0, message |-> Msg("Starting...", 0, 0)],
     [status |-> "success", progress |-> 100, message |-> Msg("Copied", 0, 0)],
     [status |-> "error", progress |-> 0,
      message |-> Msg("Error", "Failed to copy file", 0)]}

\* A progress sink calls updateJobItem.
UpdateJobItem(j, itemIndex, updates) ==
    /\ jobs' = updateJobItem(jobs, j, itemIndex, updates)
    /\ ret' = NoReturn
    /\ UNCHANGED <<runs, now, nextRun, held, client>>

\* jobs.values(): a Map iterates in the order of insertion.  The ids of a
\* registry were issued in the order of their timestamps and, within one
\* millisecond, of their suffixes.
RECURSIVE MapKeys(_)
MapKeys(ids) ==
    IF ids = {} THEN << >>
    ELSE LET first == CHOOSE x \in ids :
                        \A y \in ids :
                            \/ x.timestamp < y.timestamp
                            \/ x.timestamp = y.timestamp /\ x.random <= y.random
         IN <<first>> \o MapKeys(ids \ {first})

\* (a, b) => new Date(a.createdAt).getTime() - new Date(b.createdAt).getTime()
CompareOldestFirst(a, b) == a.createdAt - b.createdAt

\* (a, b) => new Date(b.createdAt).getTime() - new Date(a.createdAt).getTime()
CompareCreatedAt(a, b) == b.createdAt - a.createdAt

\* Array.prototype.sort is stable: an element goes behind every element that
\* does not compare greater than it.
RECURSIVE InsertSorted(_, _)
InsertSorted(sorted, x) ==
    IF sorted = << >> THEN <<x>>
    ELSE IF CompareCreatedAt(sorted[Len(sorted)], x) <= 0
         THEN Append(sorted, x)
         ELSE Append(InsertSorted(SubSeq(sorted, 1, Len(sorted) - 1), x),
                     sorted[Len(sorted)])

RECURSIVE ArraySort(_)
ArraySort(arr) ==
    IF arr = << >> THEN << >>
    ELSE InsertSorted(ArraySort(SubSeq(arr, 1, Len(arr) - 1)), arr[Len(arr)])

\* jobService.getAllJobs: the snapshot getJob gives of every record, sorted.
\* jobs is the registry the call leaves behind.
getAllJobs(jobsMap) ==
    LET keys == MapKeys(DOMAIN jobsMap)
    IN [jobs |-> jobsMap,
        list |-> ArraySort([n \in 1..Len(keys) |-> getJob(jobsMap, keys[n]).job])]

\* A call of getAllJobs.
GetAllJobs ==
    /\ LET r == getAllJobs(jobs)
       IN /\ jobs' = r.jobs
          /\ ret' = [op |-> "getAllJobs", list |-> r.list]
    /\ UNCHANGED <<runs, now, nextRun, held, client>>

\* The registry's operations as functions of the registry's content: the
\* ids asked about are the ids of RegistryIds, in the registry or not, and
\* an id that was never issued.
NextRegistry ==
    \/ \E j \in RegistryIds, updates \in SinkUpdates : UpdateJobItem(j, 0, updates)
    \/ \E j \in RegistryIds \cup {NoSuchId} : GetJob(j)
    \/ \E j \in RegistryIds \cup {NoSuchId} : DeleteJob(j)
    \/ \E a \in 0..MaxTime : ClearOldJobs(a)
    \/ GetAllJobs
    \/ Tick

SpecRegistry == InitGc /\ [][NextRegistry]_vars

----------------------------------------------------------------------------
(* The progress sink as a function of the registry and of the event.  The  *)
(* registry starts with up to MaxGcJobs jobs of 0..MaxItems items, each    *)
(* item in any status.                                                     *)

ItemStatuses == {"pending", "processing", "success", "error"}

\* A job record whose items are in the given statuses.
JobWithItems(jobId, statuses, createdAt) ==
    [NewJob(jobId, [i \in DOMAIN statuses |-> UrlFile], "given", createdAt) EXCEPT
        !.completedItems = Cardinality({i \in DOMAIN statuses : statuses[i] \in Terminal}),
        !.status = IF /\ DOMAIN statuses # {}
                      /\ \A i \in DOMAIN statuses : statuses[i] \in Terminal
                   THEN "complete" ELSE "processing",
        !.items = [i \in DOMAIN statuses |-> [@[i] EXCEPT !.status = statuses[i]]]]

ItemStatusLists == UNION {[0..(n - 1) -> ItemStatuses] : n \in 0..MaxItems}

\* The ids of the jobs created at time 0.
SinkIds == {generateJobId(0, random) : random \in Randoms}

InitSink ==
    /\ now = 0
    /\ \E ids \in {x \in SUBSET SinkIds : Cardinality(x) <= MaxGcJobs} :
          \E reg \in [ids -> ItemStatusLists] :
             jobs = [id \in ids |-> JobWithItems(id, reg[id], 0)]
    /\ runs = << >>
    /\ nextRun = 1
    /\ ret = NoReturn
    /\ held = NoSnapshot
    /\ client = IdleClient

\* The events an engine delivers: the first event of an item, a progress
\* of copyFile, and the two terminal events.
ProgressEvents ==
    SinkUpdates \cup
       {[status |-> "processing", progress |-> FileProgressAfterCopy,
         message |-> Msg("Copying file...", 0, 0)]}

\* A progress event reaches the sink processJob gave to batchCopy.  ret
\* holds the event: the sink returns nothing.
OnProgress(j, index, e) ==
    /\ jobs' = onProgress(jobs, j, index, e.status, e.progress, e.message)
    /\ ret' = [op |-> "onProgress", jobId |-> j, index |-> index, event |-> e]
    /\ UNCHANGED <<runs, now, nextRun, held, client>>

\* One event is applied to each registry.
NextSink ==
    \E j \in SinkIds \cup {NoSuchId}, index \in 0..MaxItems, e \in ProgressEvents :
        ret = NoReturn /\ OnProgress(j, index, e)

SpecSink == InitSink /\ [][NextSink]_vars

----------------------------------------------------------------------------
(* Properties *)

\* What the engine last reported for index i of run r ("pending" before the
\* first event).
LastStatus(r, i) ==
    IF Len(r.events[i]) = 0 THEN "pending"
    ELSE r.events[i][Len(r.events[i])].status

TerminalItems(job) == {i \in DOMAIN job.items : job.items[i].status \in {"success", "error"}}

\* Run k started this many workers.
Workers(k) == Len(runs[k].workers)

\* The runs whose progress sink addresses job id j.
RunsOf(j) == {k \in DOMAIN runs : runs[k].jobId = j}

\* The concurrency job j was requested with is a number.
NumericConcurrency(j) == \A k \in RunsOf(j) : ~runs[k].concurrency.nan

\* C1: whenever a job's status is Complete, its completedItems equals its
\* totalItems and every one of its items is in Success or Error, for every
\* batch and every concurrency value the caller can supply.
C1_CompleteJobHasAllItemsTerminal ==
    \A j \in DOMAIN jobs :
        jobs[j].status = "complete" =>
            /\ jobs[j].completedItems = jobs[j].totalItems
            /\ \A i \in DOMAIN jobs[j].items :
                  jobs[j].items[i].status \in {"success", "error"}

\* C1, for the requests whose concurrency is a number: the same statement
\* holds of them.
C1_HoldsForNumericConcurrency ==
    \A j \in DOMAIN jobs :
        (jobs[j].status = "complete" /\ NumericConcurrency(j)) =>
            /\ jobs[j].completedItems = jobs[j].totalItems
            /\ \A i \in DOMAIN jobs[j].items :
                  jobs[j].items[i].status \in {"success", "error"}

\* C2: in every reachable state, for every job, completedItems equals the
\* number of the job's items whose status is Success or Error.
C2_CompletedItemsCountsTerminalItems ==
    \A j \in DOMAIN jobs :
        jobs[j].completedItems = Cardinality(TerminalItems(jobs[j]))

\* C2's case: two workers have each completed an item of the same job, one
\* with Success and one with Error.
C2_Witness ==
    \E j \in DOMAIN jobs, k \in DOMAIN runs :
        /\ runs[k].jobId = j
        /\ Workers(k) = 2
        /\ jobs[j].completedItems = 2
        /\ \E a, b \in DOMAIN jobs[j].items :
              /\ jobs[j].items[a].status = "success"
              /\ jobs[j].items[b].status = "error"
              /\ runs[k].faults[b] = 1

\* C3: in every reachable state a job has status Complete if and only if
\* its completedItems equals its totalItems (no run of the engine faults in
\* this model, so the statement covers every job).
C3_CompleteIffAllItemsCompleted ==
    \A j \in DOMAIN jobs :
        (jobs[j].status = "complete") <=>
            (jobs[j].completedItems = jobs[j].totalItems)

\* C3, for a job of at least one item whose requested concurrency is a
\* number.
C3_HoldsForNonEmptyNumeric ==
    \A j \in DOMAIN jobs :
        (jobs[j].totalItems > 0 /\ NumericConcurrency(j)) =>
            ((jobs[j].status = "complete") <=>
                (jobs[j].completedItems = jobs[j].totalItems))

\* C4: a fault raised by the backend while copying one item turns that item,
\* and no other, into Error; the other items are still claimed and
\* processed, an item whose backend call succeeds ends in Success, and the
\* job reaches Complete, never Error, once all items are terminal.
C4_BackendFaultStaysWithItsItem ==
    \A k \in DOMAIN runs :
        LET r == runs[k]
            j == r.jobId
            someFault == \E i \in DOMAIN r.items : r.faults[i] > 0
        IN /\ \A i \in DOMAIN r.items :
                /\ r.faults[i] > 0 =>
                      /\ LastStatus(r, i) = "error"
                      /\ r.results[i].defined /\ ~r.results[i].success
                /\ LastStatus(r, i) = "error" =>
                      (r.faults[i] > 0 \/ r.urls[i] = UrlBad)
                /\ LastStatus(r, i) = "success" =>
                      (r.faults[i] = 0 /\ r.results[i].success)
           /\ (r.phase = "done" /\ someFault) =>
                \A i \in DOMAIN r.items :
                    /\ r.claimed[i] = 1
                    /\ LastStatus(r, i) \in {"success", "error"}
                    /\ (r.faults[i] = 0 /\ r.urls[i] # UrlBad) =>
                          LastStatus(r, i) = "success"
           /\ j \in DOMAIN jobs =>
                /\ jobs[j].status # "error"
                /\ \A i \in DOMAIN r.items :
                      jobs[j].items[i].status = LastStatus(r, i)
                /\ (someFault /\ TerminalItems(jobs[j]) = DOMAIN jobs[j].items) =>
                      jobs[j].status = "complete"

\* C4's case: under two workers the backend call for item 0 faulted while
\* item 1 succeeded; item 0 is Error, item 1 is Success, the job is Complete.
C4_Witness ==
    \E j \in DOMAIN jobs, k \in DOMAIN runs :
        /\ runs[k].jobId = j
        /\ Workers(k) = 2
        /\ runs[k].faults[0] = 1 /\ runs[k].faults[1] = 0
        /\ jobs[j].items[0].status = "error"
        /\ jobs[j].items[1].status = "success"
        /\ jobs[j].status = "complete"

\* C5: an item whose reference does not parse is reported as Error with no
\* Processing event and no backend call for its index, and it does not keep
\* the other items from being copied: in a run that started a worker every
\* item is claimed, and a batch of one valid and one invalid reference whose
\* backend call does not fault ends with exactly one Success and one Error,
\* whichever comes first in the list.
C5_InvalidReferenceIsErrorWithoutBackendCall ==
    \A k \in DOMAIN runs :
        LET r == runs[k]
            j == r.jobId
            bad == {i \in DOMAIN r.items : r.urls[i] = UrlBad}
            ok == {i \in DOMAIN r.items : LastStatus(r, i) = "success"}
            ko == {i \in DOMAIN r.items : LastStatus(r, i) = "error"}
        IN /\ \A i \in bad :
                /\ r.calls[i] = 0
                /\ \A n \in 1..Len(r.events[i]) : r.events[i][n].status = "error"
                /\ Len(r.events[i]) <= 1
                /\ r.claimed[i] >= 1 =>
                      /\ Len(r.events[i]) = 1
                      /\ r.results[i].defined /\ ~r.results[i].success
                /\ (r.claimed[i] >= 1 /\ j \in DOMAIN jobs) =>
                      jobs[j].items[i].status = "error"
           /\ (r.phase = "done" /\ Len(r.workers) >= 1) =>
                \A i \in DOMAIN r.items : r.claimed[i] = 1
           /\ ( /\ r.phase = "done"
                /\ Len(r.workers) >= 1
                /\ Length(r.urls) = 2
                /\ Cardinality(bad) = 1
                /\ \A i \in DOMAIN r.items : r.faults[i] = 0 ) =>
                /\ ko = bad
                /\ ok = (DOMAIN r.items) \ bad
                /\ j \in DOMAIN jobs =>
                      /\ jobs[j].status = "complete"
                      /\ jobs[j].totalItems = 2
                      /\ \A i \in DOMAIN r.items :
                            jobs[j].items[i].status = LastStatus(r, i)

\* C5's case: the invalid reference comes first, a single worker fails it
\* and then copies the valid one; the job is Complete with one of each.
C5_Witness ==
    \E j \in DOMAIN jobs, k \in DOMAIN runs :
        /\ runs[k].jobId = j
        /\ Length(runs[k].urls) = 2
        /\ runs[k].urls[0] = UrlBad /\ runs[k].urls[1] = UrlFile
        /\ Workers(k) = 1
        /\ jobs[j].status = "complete"
        /\ jobs[j].items[0].status = "error"
        /\ jobs[j].items[1].status = "success"
        /\ runs[k].calls[0] = 0

\* Math.max(1, Math.min(c, 10)) on integers.
ClampInt(c) == IF c < 1 THEN 1 ELSE IF c > 10 THEN 10 ELSE c

MinInt(a, b) == IF a < b THEN a ELSE b

\* C6: for every concurrency value requested, the engine runs with the value
\* clamped into [1, 10] and starts exactly min(clamped value, number of
\* items) workers.
C6_ConcurrencyIsClampedIntoRange ==
    \A k \in DOMAIN runs :
        LET r == runs[k] IN
        /\ ~r.safeConcurrency.nan
        /\ r.safeConcurrency.v \in 1..10
        /\ ~r.concurrency.nan => r.safeConcurrency.v = ClampInt(r.concurrency.v)
        /\ Len(r.workers) = MinInt(r.safeConcurrency.v, Length(r.urls))

\* C6, for the requests whose concurrency is a number.
C6_HoldsForNumericConcurrency ==
    \A k \in DOMAIN runs :
        LET r == runs[k] IN
        ~r.concurrency.nan =>
            /\ ~r.safeConcurrency.nan
            /\ r.safeConcurrency.v = ClampInt(r.concurrency.v)
            /\ Len(r.workers) = MinInt(r.safeConcurrency.v, Length(r.urls))

\* C7: as seen through getJob, an item carries a result exactly when it is
\* Success and an error detail exactly when it is Error.
C7_ResultIffSuccessErrorDetailIffError ==
    \A j \in DOMAIN jobs :
        LET snapshot == getJob(jobs, j).job IN
        \A i \in DOMAIN snapshot.items :
            /\ ("result" \in DOMAIN snapshot.items[i]) <=>
                  (snapshot.items[i].status = "success")
            /\ ("error" \in DOMAIN snapshot.items[i]) <=>
                  (snapshot.items[i].status = "error")

\* C7's Success half alone: a Success item carries a result.
C7_SuccessItemCarriesResult ==
    \A j \in DOMAIN jobs :
        \A i \in DOMAIN jobs[j].items :
            jobs[j].items[i].status = "success" =>
                "result" \in DOMAIN jobs[j].items[i]

\* C8: for each item, the percent values of the successive progress events
\* never decrease over the item's whole event sequence, the terminal event
\* included.
C8_PercentNeverDecreases ==
    \A k \in DOMAIN runs :
        \A i \in DOMAIN runs[k].items :
            \A n \in 1..(Len(runs[k].events[i]) - 1) :
                runs[k].events[i][n].progress <= runs[k].events[i][n + 1].progress

\* C8 as amended: the percent values of the Processing events and of a
\* Success terminal event never decrease; an Error terminal event carries
\* percent 0 whatever was reported before it.  The item's stored progress is
\* the percent of its last event.
C8_PercentNeverDecreasesUntilError ==
    \A k \in DOMAIN runs :
        \A i \in DOMAIN runs[k].items :
            LET ev == runs[k].events[i]
                j == runs[k].jobId
            IN
            /\ \A n \in 1..Len(ev) :
                  /\ ev[n].progress \in 0..100
                  /\ ev[n].status = "error" => ev[n].progress = 0
                  /\ ev[n].status = "success" => ev[n].progress = 100
            /\ \A n \in 1..(Len(ev) - 1) :
                  ev[n + 1].status # "error" => ev[n].progress <= ev[n + 1].progress
            /\ (j \in DOMAIN jobs /\ Len(ev) > 0) =>
                  jobs[j].items[i].progress = ev[Len(ev)].progress

\* C8's case: a folder item has reported the progress of its second child
\* and then ended, here in Error after that partial progress.
C8_Witness ==
    \E k \in DOMAIN runs :
        \E i \in DOMAIN runs[k].items :
            LET ev == runs[k].events[i] IN
            /\ Len(ev) = 4
            /\ ev[2].progress > 0 /\ ev[3].progress > ev[2].progress
            /\ ev[3].message.tag = "Copying"
            /\ ev[4].status = "error"

\* C9: for each item the engine processes it emits exactly one terminal
\* event (Success or Error), which is the last event for that index: no
\* event follows it, none precedes the claim of the index, and an index
\* whose backend call is in flight has no terminal event yet.
C9_ExactlyOneTerminalEventAndItIsLast ==
    \A k \in DOMAIN runs :
        LET r == runs[k] IN
        \A i \in DOMAIN r.items :
            LET ev == r.events[i]
                terms == {n \in 1..Len(ev) : ev[n].status \in {"success", "error"}}
                inFlight == \E w \in DOMAIN r.workers :
                            r.workers[w].pc # "returned" /\ r.workers[w].item = i
            IN /\ Cardinality(terms) <= 1
               /\ \A n \in terms : n = Len(ev)
               /\ r.claimed[i] = 0 => ev = << >>
               /\ inFlight => (terms = {} /\ Len(ev) >= 1)
               /\ (r.claimed[i] >= 1 /\ ~inFlight) => Cardinality(terms) = 1
               /\ (r.phase = "done" /\ Len(r.workers) >= 1) => Cardinality(terms) = 1

\* C9's case: a run of two items is over; one item went through the three
\* Processing events of a file copy and its Success, the other ended in
\* Error.
C9_Witness ==
    \E k \in DOMAIN runs :
        /\ runs[k].phase = "done"
        /\ Length(runs[k].urls) = 2
        /\ \E a, b \in DOMAIN runs[k].items :
              /\ Len(runs[k].events[a]) = 5
              /\ runs[k].events[a][5].status = "success"
              /\ LastStatus(runs[k], b) = "error"

C10_GcRemovesEveryOldCompleteJob ==
    [][\A a \in 0..MaxTime :
          ClearOldJobs(a) =>
              /\ \A id \in DOMAIN jobs :
                    (jobs[id].status = "complete"
                       /\ now - jobs[id].createdAt > a) => id \notin DOMAIN jobs'
              /\ ret'.cleared = Cardinality((DOMAIN jobs) \ (DOMAIN jobs'))]_vars

\* C11: gc(maxAge) never removes a job whose status is Processing, whatever
\* its age, and never removes a job created no more than maxAge ago; every
\* such job is in the registry afterwards, unchanged.
C11_GcKeepsProcessingAndYoungJobs ==
    [][\A a \in 0..MaxTime :
          ClearOldJobs(a) =>
              \A id \in DOMAIN jobs :
                  (jobs[id].status = "processing" \/ now - jobs[id].createdAt <= a) =>
                      (id \in DOMAIN jobs' /\ jobs'[id] = jobs[id])]_vars

\* C11's case: a collection has removed a job and left a Processing job that
\* is as old as the one it removed.
C11_Witness ==
    /\ ret.op = "clearOldJobs"
    /\ ret.cleared = 1
    /\ \E id \in DOMAIN jobs :
          /\ jobs[id].status = "processing"
          /\ now - jobs[id].createdAt = MaxTime

\* C12: deleteJob on an id that is in the registry removes that record and
\* no other and returns true; on an id that is not in the registry (never
\* created, or already deleted) it returns false and leaves the registry
\* unchanged; the delete endpoint answers that case with not-found (404).
C12_DeleteRemovesExactlyThatRecord ==
    [][\A j \in RegistryIds \cup {NoSuchId} :
          DeleteJob(j) =>
              IF j \in DOMAIN jobs
              THEN /\ DOMAIN jobs' = (DOMAIN jobs) \ {j}
                   /\ \A x \in DOMAIN jobs' : jobs'[x] = jobs[x]
                   /\ ret'.deleted
                   /\ ret'.code = 200
              ELSE /\ jobs' = jobs
                   /\ ~ret'.deleted
                   /\ ret'.code = 404]_vars

\* C12's case: a record was deleted from a registry of two; the other record
\* is still there.
C12_Witness ==
    /\ ret.op = "deleteJob"
    /\ ret.deleted
    /\ ret.jobId \notin DOMAIN jobs
    /\ Cardinality(DOMAIN jobs) = 1

\* C12's other case: the id of the deleted record is deleted once more.
C12_DeletedTwice ==
    /\ ret.op = "deleteJob"
    /\ ~ret.deleted
    /\ ret.jobId \in RegistryIds
    /\ ret.code = 404

\* C13: when a job is deleted while its workers are still running, the
\* workers keep claiming and copying the remaining items (the run is never
\* stuck, and it ends with every item claimed once and reported as Success
\* or Error, Success when nothing was wrong with the item), every later step
\* of the run leaves the registry as it is, and the deleted record is never
\* in the registry again.
C13_DeletedJobKeepsRunningAndStaysDeleted ==
    /\ [](\A k \in DOMAIN runs :
             LET r == runs[k] IN
             r.orphanedAt >= 0 =>
                /\ r.jobId \notin DOMAIN jobs
                /\ r.phase = "running" =>
                      \E w \in DOMAIN r.workers : r.workers[w].pc \in BackendCalls
                /\ r.phase = "done" =>
                      \A i \in DOMAIN r.items :
                          /\ r.claimed[i] = 1
                          /\ r.results[i].defined
                          /\ LastStatus(r, i) \in {"success", "error"}
                          /\ (r.faults[i] = 0 /\ r.urls[i] # UrlBad) =>
                                LastStatus(r, i) = "success")
    /\ [][\A k \in DOMAIN runs :
             (runs[k].orphanedAt >= 0 /\ runs'[k] # runs[k]) => jobs' = jobs]_vars

\* C13's case: the record was deleted when the run's only worker had claimed
\* the first of two items; the worker went on to the second and both were
\* copied.
C13_Witness ==
    \E k \in DOMAIN runs :
        /\ runs[k].orphanedAt = 1
        /\ Workers(k) = 1
        /\ runs[k].phase = "done"
        /\ Length(runs[k].urls) = 2
        /\ \A i \in DOMAIN runs[k].items : LastStatus(runs[k], i) = "success"

\* C14: a snapshot returned by getJob is consistent and stays as it was
\* returned: its completedItems equals the number of its items in Success or
\* Error, and later progress updates change neither its counters and status
\* nor the items it holds.
C14_SnapshotStaysAsReturned ==
    held.taken =>
        LET items == SnapshotItems(held, jobs) IN
        /\ held.completedItems =
              Cardinality({i \in DOMAIN items : items[i].status \in {"success", "error"}})
        /\ items = held.returned

\* C14, at the moment getJob returns: the snapshot's counter agrees with its
\* items.
C14_SnapshotConsistentWhenReturned ==
    (ret.op = "getJob" /\ ret.snapshot.found) =>
        ret.snapshot.job.completedItems = Cardinality(TerminalItems(ret.snapshot.job))

\* C15: getJob changes nothing in the registry, so a second call on the same
\* id with no registry mutation in between returns a snapshot equal to the
\* first in every field; the snapshot has the fields of the record; for an
\* unknown id both calls return not-found (404 at the endpoint).
C15_GetJobIsARepeatableRead ==
    /\ [][\A j \in RequestIds :
             GetJob(j) =>
                /\ jobs' = jobs
                /\ ret'.snapshot.found <=> (j \in DOMAIN jobs)
                /\ ret'.snapshot.found =>
                      (ret'.code = 200 /\ ret'.snapshot.job = jobs[j])
                /\ ~ret'.snapshot.found => ret'.code = 404]_vars
    /\ [](ret.op = "getJob" =>
             LET again == getJob(jobs, ret.jobId) IN
             /\ again.found = ret.snapshot.found
             /\ again.job = ret.snapshot.job
             /\ again.jobs = jobs)

\* C15's case: getJob has returned the snapshot of a job of two items that
\* is halfway, one item done and the other being copied.
C15_Witness ==
    /\ ret.op = "getJob"
    /\ ret.snapshot.found
    /\ ret.snapshot.job.status = "processing"
    /\ ret.snapshot.job.completedItems = 1
    /\ \E i \in DOMAIN ret.snapshot.job.items :
          ret.snapshot.job.items[i].progress = FileProgressAfterCopy

\* C15's other case: getJob has answered not-found for the id of a job that
\* was deleted.
C15_NotFoundAfterDeletion ==
    /\ ret.op = "getJob"
    /\ ~ret.snapshot.found
    /\ ret.jobId \in Issued

\* C16: job ids are unique over the process lifetime: no two createJob calls
\* return the same id, so the record of a job is the record createJob made
\* for it (it was not replaced by a later job's) and the items of a job
\* show the progress of that job's run and of no other.
C16_JobIdsAreUnique ==
    /\ \A k1, k2 \in DOMAIN runs : k1 # k2 => runs[k1].jobId # runs[k2].jobId
    /\ \A k \in DOMAIN runs :
          LET r == runs[k] IN
          r.jobId \in DOMAIN jobs =>
              /\ \A i \in DOMAIN r.items : jobs[r.jobId].items[i].url = r.urls[i]
              /\ \A i \in DOMAIN r.items :
                    jobs[r.jobId].items[i].status = LastStatus(r, i)

\* C16, for two calls at different times: their ids differ.
C16_IdsOfDifferentTimesDiffer ==
    \A k1, k2 \in DOMAIN runs :
        (k1 # k2 /\ runs[k1].jobId.timestamp # runs[k2].jobId.timestamp) =>
            runs[k1].jobId # runs[k2].jobId

\* C16's consequence, a state that is reached: the run of the first job has
\* written its Success into the item of the second job, whose own run is
\* still copying.
C16_CrossUpdate ==
    \E k1, k2 \in DOMAIN runs :
        /\ k1 < k2
        /\ runs[k1].jobId = runs[k2].jobId
        /\ runs[k1].jobId \in DOMAIN jobs
        /\ LastStatus(runs[k1], 0) = "success"
        /\ LastStatus(runs[k2], 0) = "processing"
        /\ jobs[runs[k2].jobId].items[0].status = "success"
        /\ jobs[runs[k2].jobId].status = "complete"

\* C17: when resolving or creating the destination folder fails at
\* submission, the failure surfaces as a job whose status is Error,
\* observable through getJob, and no item of the batch is processed.
C17_FolderFailureSurfacesAsErrorJob ==
    ((ret.op = "createJob" /\ ret.threw) \/ (ret.op = "POST" /\ ret.code = 500)) =>
        /\ \E j \in DOMAIN jobs : jobs[j].status = "error"
        /\ \A k \in DOMAIN runs :
              \A i \in DOMAIN runs[k].items : runs[k].claimed[i] = 0

\* C17 as amended: when creating the destination folder fails at
\* submission, createJob throws (POST answers 500) and leaves no job record
\* and no run: nothing is observable through getJob, no item is processed
\* and no copy backend call is made.
C17_FolderFailureRejectsTheSubmission ==
    [][(ret'.op \in {"createJob", "POST"} \/ nextRun' # nextRun) =>
          \A urls \in UrlLists, c \in ConcurrencyInputs, random \in Randoms :
              /\ CreateJob(urls, "createFolder fails", c, random) =>
                    (ret'.threw /\ jobs' = jobs /\ runs' = runs /\ nextRun' = nextRun)
              /\ (Length(urls) > 0
                    /\ PostCopy(JsonArray(urls), "createFolder fails", c, random)) =>
                    (ret'.code = 500 /\ jobs' = jobs /\ runs' = runs
                       /\ nextRun' = nextRun)]_vars

\* C17's case: a submission whose folder could not be created was answered
\* with 500; the registry is empty and no run exists.
C17_Witness ==
    /\ ret.op = "POST"
    /\ ret.code = 500
    /\ jobs = << >>
    /\ runs = << >>

C18_CompleteStaysComplete ==
    [][\A j \in DOMAIN jobs :
          (j \in DOMAIN jobs' /\ jobs[j].status = "complete") =>
              jobs'[j].status = "complete"]_vars

\* C19: a job's targetFolderId is fixed before the first item of the job is
\* claimed or any copy backend call is made, every item of the job is copied
\* into that same folder, and the field never changes for the life of the
\* job record.
C19_TargetFolderIsFixedAndShared ==
    /\ [](\A k \in DOMAIN runs :
             LET r == runs[k] IN
             /\ r.targetFolderId \in {"given", "created"}
             /\ r.jobId \in DOMAIN jobs =>
                   jobs[r.jobId].targetFolderId = r.targetFolderId
             /\ \A i \in DOMAIN r.items :
                   /\ r.calls[i] > 0 => r.into[i] = r.targetFolderId
                   /\ r.calls[i] = 0 => r.into[i] = "")
    /\ [][\A j \in DOMAIN jobs :
             j \in DOMAIN jobs' =>
                jobs'[j].targetFolderId = jobs[j].targetFolderId]_vars
    /\ []((ret.op = "POST" /\ ret.code = 200) =>
             ret.targetFolderId = jobs[ret.jobId].targetFolderId)

\* C19's case: both items of a job whose folder createJob created were
\* copied, by two workers; the job is Complete and still names that folder.
C19_Witness ==
    \E k \in DOMAIN runs :
        /\ runs[k].jobId \in DOMAIN jobs
        /\ jobs[runs[k].jobId].status = "complete"
        /\ jobs[runs[k].jobId].targetFolderId = "created"
        /\ Workers(k) = 2
        /\ \A i \in DOMAIN runs[k].items :
              runs[k].calls[i] = 1 /\ runs[k].into[i] = "created"
        /\ Length(runs[k].urls) = 2

\* C20: a backend call that does not return is bounded by a timeout: the
\* item it belongs to is eventually marked Error, so a job never stays
\* Processing forever because one backend call hangs.
C20_HungCallEndsInError ==
    \A k \in 1..MaxJobs, w \in 1..MaxItems, i \in 0..MaxItems :
        (/\ k \in DOMAIN runs
         /\ w \in DOMAIN runs[k].workers
         /\ runs[k].workers[w].pc = "hung"
         /\ runs[k].workers[w].item = i)
        ~> (/\ k \in DOMAIN runs
            /\ i \in DOMAIN runs[k].items
            /\ LastStatus(runs[k], i) = "error"
            /\ \/ runs[k].jobId \notin DOMAIN jobs
               \/ jobs[runs[k].jobId].status # "processing")

\* C20, what happens instead: a worker whose call hangs stays in that call,
\* and its item stays Processing.
C20_HungWorkerStaysHung ==
    [][\A k \in DOMAIN runs : \A w \in DOMAIN runs[k].workers :
          runs[k].workers[w].pc = "hung" =>
              /\ runs'[k].workers[w] = runs[k].workers[w]
              /\ LastStatus(runs'[k], runs[k].workers[w].item) = "processing"]_vars

\* The run k is over as C21 describes it: every item has ended in Success
\* or Error and the job of the run is Complete.
RunCompleted(k) ==
    /\ k \in DOMAIN runs
    /\ \A i \in DOMAIN runs[k].items : LastStatus(runs[k], i) \in Terminal
    /\ runs[k].jobId \in DOMAIN jobs
    /\ jobs[runs[k].jobId].status = "complete"
    /\ \A i \in DOMAIN jobs[runs[k].jobId].items :
          jobs[runs[k].jobId].items[i].status \in Terminal

\* C21: if every backend call eventually returns, by success or by fault,
\* then under fair scheduling of the workers every item of a job eventually
\* reaches Success or Error and the job eventually reaches Complete, for
\* every batch size and every concurrency.
C21_EveryJobRunsToCompletion ==
    \A k \in 1..MaxJobs : (k \in DOMAIN runs) ~> RunCompleted(k)

\* C21 for the requests whose concurrency is a number.
C21_HoldsForNumericConcurrency ==
    \A k \in 1..MaxJobs :
        (k \in DOMAIN runs /\ ~runs[k].concurrency.nan) ~> RunCompleted(k)

\* C22: the polling client treats a not-found response for the job id it is
\* polling as terminal: once the route has answered 404, no further fetch
\* of that id is scheduled.
C22_NotFoundEndsPolling ==
    (ret.op = "poll" /\ ~ret.res.fault /\ ret.res.code = 404) => ~client.scheduled

\* C22, what the client does instead: the 404 is thrown into the catch block
\* that handles transport faults, and the next fetch is set 2000 ms later.
C22_NotFoundIsRetried ==
    (ret.op = "poll" /\ ~ret.res.fault /\ ret.res.code = 404)
        => (client.scheduled /\ client.delay = POLL_ERROR_RETRY_MS)

\* C22, the same over time: a client whose job has left the registry has a
\* fetch scheduled for ever.
C22_PollsDeletedJobForEver ==
    [][(client.polling /\ client.scheduled /\ client.jobId \notin DOMAIN jobs)
          => client'.scheduled]_vars

\* The client has seen the job in a terminal status.
ObservedTerminal == client.jobStatus \in {"complete", "error"}

\* C23: the polling client schedules another fetch 500 ms after each response
\* that shows the job Processing and 2000 ms after each transport fault,
\* schedules no further fetch once it has observed Complete or Error, and,
\* if the job reaches a terminal status and is not deleted, eventually
\* observes it and stops.
C23_PollsUntilTerminalObserved ==
    /\ [](ret.op = "poll" =>
            /\ (~ret.res.fault /\ ret.res.code = 200 /\ ret.res.status = "processing")
                 => (client.scheduled /\ client.delay = POLL_INTERVAL_MS)
            /\ ret.res.fault
                 => (client.scheduled /\ client.delay = POLL_ERROR_RETRY_MS)
            /\ (~ret.res.fault /\ ret.res.code = 200
                   /\ ret.res.status \in {"complete", "error"})
                 => (ObservedTerminal /\ client.jobStatus = ret.res.status))
    /\ [](ObservedTerminal => ~client.scheduled)
    /\ [][ObservedTerminal => client' = client]_vars
    /\ (/\ client.polling
        /\ client.jobId \in DOMAIN jobs
        /\ jobs[client.jobId].status \in {"complete", "error"})
       ~> (\/ ObservedTerminal /\ ~client.scheduled
           \/ client.jobId \notin DOMAIN jobs)

\* C23's case: the client polls the job it submitted, has seen it Processing
\* and set the short timer; and the poll that followed the job's completion
\* has shown it Complete and set no timer.
C23_Witness ==
    /\ 1 \in DOMAIN runs
    /\ client.polling
    /\ client.jobId = runs[1].jobId
    /\ Len(runs[1].workers) >= 1
    /\ ret.op = "poll"
    /\ ret.res = Response(200, "complete")
    /\ client.state = "complete"
    /\ ~client.scheduled
    /\ client.delay = POLL_INTERVAL_MS

\* C23's other cases: a poll met a transport fault and the long timer is set;
\* a poll has shown a job in status Error.
C23_WitnessFault ==
    /\ ret.op = "poll" /\ ret.res.fault
    /\ client.scheduled /\ client.delay = POLL_ERROR_RETRY_MS
    /\ client.jobStatus = "processing"

C23_WitnessError ==
    /\ ret.op = "poll" /\ ret.res = Response(200, "error")
    /\ client.error = "Copy job failed" /\ ~client.scheduled

\* C24: listJobs returns exactly one snapshot for each job currently in the
\* registry, ordered by createdAt from newest to oldest, and changes nothing
\* in the registry.
C24_ListJobsIsTheRegistryNewestFirst ==
    /\ [](ret.op = "getAllJobs" =>
            /\ Len(ret.list) = Cardinality(DOMAIN jobs)
            /\ \A j \in DOMAIN jobs :
                  \E n \in 1..Len(ret.list) : ret.list[n] = jobs[j]
            /\ \A n \in 1..Len(ret.list) :
                  ret.list[n].id \in DOMAIN jobs /\ ret.list[n] = jobs[ret.list[n].id]
            /\ \A m, n \in 1..Len(ret.list) :
                  m < n => ret.list[m].createdAt >= ret.list[n].createdAt)
    /\ [][ret'.op = "getAllJobs" => jobs' = jobs]_vars

\* C24's case: the list of a registry of two jobs created at different
\* times, the newer of them first.
C24_Witness ==
    /\ ret.op = "getAllJobs"
    /\ Len(ret.list) = 2
    /\ ret.list[1].createdAt > ret.list[2].createdAt

\* C24, jobs of the same millisecond: they come in the order of the registry.
C24_WitnessTie ==
    /\ ret.op = "getAllJobs"
    /\ Len(ret.list) = 2
    /\ ret.list[1].createdAt = ret.list[2].createdAt
    /\ ret.list[1].id.random < ret.list[2].id.random

\* C25: a submission whose reference list is missing, not a list, or empty
\* is rejected at the submission boundary (400): no job record is created,
\* no destination folder is created and no background work starts.  A
\* non-empty list is accepted even when it contains invalid strings: a job
\* with one item per reference is registered, and an invalid reference, once
\* claimed, is an item in status Error, never a job in status Error.
C25_BadListIsRejectedBadReferenceIsItemError ==
    /\ [][ret'.op = "POST" =>
          \A urls \in BodyUrls, f \in FolderInputs, c \in ConcurrencyInputs,
            random \in Randoms :
             /\ ((urls.type # "array" \/ Length(urls.value) = 0)
                    /\ PostCopy(urls, f, c, random)) =>
                   /\ ret' = [op |-> "POST", code |-> 400, createFolder |-> FALSE]
                   /\ jobs' = jobs /\ runs' = runs /\ nextRun' = nextRun
             /\ ((urls.type = "array" /\ Length(urls.value) > 0
                    /\ f # "createFolder fails"
                    /\ PostCopy(urls, f, c, random)) =>
                   /\ ret'.code = 200
                   /\ ret'.jobId \in DOMAIN jobs'
                   /\ jobs'[ret'.jobId].totalItems = Length(urls.value)
                   /\ \A i \in DOMAIN urls.value :
                         jobs'[ret'.jobId].items[i].url = urls.value[i]
                   /\ nextRun \in DOMAIN runs'
                   /\ runs'[nextRun].urls = urls.value)]_vars
    /\ []((ret.op = "POST" /\ ret.code = 400) => ~ret.createFolder)
    /\ [](\A k \in DOMAIN runs :
            LET r == runs[k]
                bad == {i \in DOMAIN r.items : ~parseGoogleDriveUrl(r.urls[i]).ok}
            IN /\ \A i \in bad :
                    /\ LastStatus(r, i) \in {"pending", "error"}
                    /\ r.claimed[i] >= 1 => LastStatus(r, i) = "error"
                    /\ (r.claimed[i] >= 1 /\ r.jobId \in DOMAIN jobs) =>
                          jobs[r.jobId].items[i].status = "error"
               /\ (r.phase = "done" /\ Len(r.workers) >= 1) =>
                     \A i \in bad : LastStatus(r, i) = "error"
               /\ r.jobId \in DOMAIN jobs => jobs[r.jobId].status # "error")

\* C25's case: a list of an invalid string and a file link was accepted; on
\* the return of the POST the invalid reference is an item in status Error
\* and the file is being copied.
C25_Witness ==
    /\ ret.op = "POST"
    /\ ret.code = 200
    /\ ret.jobId \in DOMAIN jobs
    /\ jobs[ret.jobId].totalItems = 2
    /\ jobs[ret.jobId].items[0].url = UrlBad
    /\ jobs[ret.jobId].items[0].status = "error"
    /\ jobs[ret.jobId].items[1].status = "processing"
    /\ jobs[ret.jobId].status = "processing"

\* C25's other case: a submission was rejected, and nothing exists.
C25_WitnessRejected ==
    /\ ret.op = "POST"
    /\ ret.code = 400
    /\ jobs = << >>
    /\ runs = << >>

\* Entry i of the outcome list of run r is defined, describes reference i,
\* and reports success exactly when the terminal event of index i was
\* Success.
OutcomeMatches(r, i) ==
    /\ r.results[i].defined
    /\ r.results[i].url = r.urls[i]
    /\ LastStatus(r, i) \in Terminal
    /\ r.results[i].success <=> LastStatus(r, i) = "success"

\* C26: when the engine's run finishes, the outcome list has one defined
\* entry per submitted reference, entry i describes reference i whatever
\* order the items completed in, and entry i reports success exactly when
\* the terminal event emitted for index i was Success.
C26_OutcomeListMatchesReferences ==
    \A k \in DOMAIN runs :
        runs[k].phase \in {"joined", "done"} =>
            /\ DOMAIN runs[k].results = DOMAIN runs[k].urls
            /\ \A i \in DOMAIN runs[k].urls : OutcomeMatches(runs[k], i)

\* C26 for the runs that started a worker; and at any time an entry that is
\* defined describes its own reference and agrees with the last event.
C26_HoldsWhenAWorkerStarted ==
    \A k \in DOMAIN runs :
        /\ (runs[k].phase \in {"joined", "done"} /\ Len(runs[k].workers) >= 1) =>
              \A i \in DOMAIN runs[k].urls : OutcomeMatches(runs[k], i)
        /\ \A i \in DOMAIN runs[k].urls :
              runs[k].results[i].defined => OutcomeMatches(runs[k], i)

\* C26, completion out of order: of two items copied by two workers the
\* second ended first, in Error by a fault, and the first ended in Success.
C26_OutOfOrder ==
    \E k \in DOMAIN runs :
        /\ runs[k].phase = "done"
        /\ Len(runs[k].workers) = 2
        /\ Length(runs[k].urls) = 2
        /\ runs[k].faults[1] = 1
        /\ runs[k].results[0].success
        /\ ~runs[k].results[1].success
        /\ Len(runs[k].events[0]) > 1 + Len(runs[k].events[1])

\* The shapes of a reference, as the contract describes them.
FollowedById(str, p) == p < Len(str) /\ str[p + 1] \in IdRuns

FileViewAt(str) == {p \in 1..Len(str) : str[p] = DriveFile /\ FollowedById(str, p)}

OpenAt(str) ==
    {p \in 1..Len(str) :
        str[p] = DriveOpen /\ p < Len(str) /\ str[p + 1] = IdEquals
           /\ FollowedById(str, p + 1)}

UcAt(str) ==
    {q \in 1..Len(str) :
        str[q] = IdEquals /\ FollowedById(str, q)
           /\ \E p \in 1..Len(str) : p < q /\ str[p] = DriveUc}

FolderAt(str) == {p \in 1..Len(str) : str[p] = DriveFolder /\ FollowedById(str, p)}

\* id is the id segment that starts at position p of str: characters of
\* [a-zA-Z0-9_-] up to the first other character or the end.
IsSegmentAt(str, p, id) ==
    /\ Len(id) >= 1
    /\ p + Len(id) - 1 <= Len(str)
    /\ \A n \in 1..Len(id) : id[n] = str[p + n - 1] /\ id[n] \in IdRuns
    /\ p + Len(id) <= Len(str) => str[p + Len(id)] \notin IdRuns

\* str without the whitespace around it.
Core(str) ==
    LET inked == {p \in 1..Len(str) : str[p] \notin Whitespace}
    IN IF inked = {} THEN << >>
       ELSE SubSeq(str, CHOOSE x \in inked : \A y \in inked : x <= y,
                        CHOOSE x \in inked : \A y \in inked : x >= y)

\* The number of characters of a string of runs.
IdLength(id) ==
    24 * Cardinality({n \in 1..Len(id) : id[n] = Run24})
       + Cardinality({n \in 1..Len(id) : id[n] = "a"})

IsBareId(str) ==
    /\ \A p \in 1..Len(str) : str[p] \in {"a", Run24}
    /\ IdLength(str) >= 25

Least(set) == CHOOSE x \in set : \A y \in set : x <= y

Greatest(set) == CHOOSE x \in set : \A y \in set : x >= y

C27_WitnessBareId ==
    /\ ret.op = "parseGoogleDriveUrl"
    /\ ret.url = <<" ", Run24, "a", " ">>
    /\ ret.parsed = [ok |-> TRUE, id |-> <<Run24, "a">>, type |-> "file"]

C27_WitnessShortBareId ==
    /\ ret.op = "parseGoogleDriveUrl"
    /\ ret.url = <<" ", Run24, " ">>
    /\ ret.parsed = NullParsed

C27_WitnessUc ==
    /\ ret.op = "parseGoogleDriveUrl"
    /\ ret.url = <<DriveUc, IdEquals, IdEquals, Run24>>
    /\ ret.parsed = [ok |-> TRUE, id |-> <<Run24>>, type |-> "file"]

\* The string embeds an id segment of at least 25 characters.
EmbedsLongId(str) ==
    \E p \in 1..Len(str), q \in 1..Len(str) :
        /\ p <= q
        /\ IsBareId(SubSeq(str, p, q))

C28_WitnessNoSegment ==
    /\ ret.op = "parseGoogleDriveUrl"
    /\ ret.url = <<"https://", DriveFolder, "/view">>
    /\ ret.parsed = NullParsed

\* C29: claims on the shared cursor are atomic and disjoint: across all
\* workers of one run every index 0..n-1 is claimed exactly once, no index
\* is claimed by two workers, no index beyond n-1 is processed, and indices
\* are claimed in increasing order.
C29_ClaimsAreDisjointAndInOrder ==
    /\ [](\A k \in DOMAIN runs :
            LET r == runs[k]
                n == Length(r.urls)
                active == {w \in DOMAIN r.workers : r.workers[w].pc \in BackendCalls}
            IN /\ r.currentIndex \in 0..n
               /\ DOMAIN r.claimed = 0..(n - 1)
               /\ \A i \in 0..(n - 1) :
                     r.claimed[i] = IF i < r.currentIndex THEN 1 ELSE 0
               /\ \A w \in active : r.workers[w].item \in 0..(r.currentIndex - 1)
               /\ \A w1, w2 \in active :
                     w1 # w2 => r.workers[w1].item # r.workers[w2].item
               /\ \A i \in 0..(n - 1) :
                     (r.claimed[i] = 1 /\ LastStatus(r, i) \notin Terminal) =>
                        \E w \in active : r.workers[w].item = i
               /\ (r.phase \in {"joined", "done"} /\ Len(r.workers) >= 1) =>
                     r.currentIndex = n)
    /\ [][\A k \in DOMAIN runs :
             /\ runs'[k].currentIndex >= runs[k].currentIndex
             /\ \A i \in DOMAIN runs[k].claimed :
                   runs'[k].claimed[i] # runs[k].claimed[i] =>
                      /\ i >= runs[k].currentIndex
                      /\ i < runs'[k].currentIndex]_vars

\* C29's case: two workers of one run are in backend calls at the same time,
\* the first for index 0 and the second for index 1, and the cursor is at
\* the end of the list.
C29_Witness ==
    \E k \in DOMAIN runs :
        /\ Len(runs[k].workers) = 2
        /\ runs[k].workers[1].pc \in BackendCalls
        /\ runs[k].workers[2].pc \in BackendCalls
        /\ runs[k].workers[1].item = 0
        /\ runs[k].workers[2].item = 1
        /\ runs[k].currentIndex = 2

\* C29, one worker for two items: the second index is claimed when the
\* first item has ended.
C29_WitnessOneWorker ==
    \E k \in DOMAIN runs :
        /\ Len(runs[k].workers) = 1
        /\ runs[k].workers[1].pc \in BackendCalls
        /\ runs[k].workers[1].item = 1
        /\ LastStatus(runs[k], 0) \in Terminal

\* The effective concurrency of run k is at least 2.
EffectiveConcurrencyAtLeast2(k) ==
    /\ ~runs[k].safeConcurrency.nan
    /\ MinInt(runs[k].safeConcurrency.v, Length(runs[k].urls)) >= 2

\* Worker w of run k is in a backend call that does not return.
BlockedIn(k, w) ==
    /\ k \in DOMAIN runs
    /\ w \in DOMAIN runs[k].workers
    /\ runs[k].workers[w].pc = "hung"

\* The indices of run k that no blocked worker holds.
OtherItems(k) ==
    {i \in DOMAIN runs[k].items :
        \A w \in DOMAIN runs[k].workers :
            runs[k].workers[w].pc = "hung" => runs[k].workers[w].item # i}

\* C30: items are not pre-partitioned: with effective concurrency at least
\* 2, while one worker is blocked in a backend call that has not returned,
\* every other item of the batch is still claimed by the remaining workers
\* and eventually reaches Success or Error, given that their own backend
\* calls return: the exception is that as many workers as the effective
\* concurrency are blocked, when no worker remains.
C30_BlockedWorkerDoesNotStallTheOthers ==
    \A k \in 1..MaxJobs :
        (/\ \E w \in 1..MaxItems : BlockedIn(k, w)
         /\ EffectiveConcurrencyAtLeast2(k))
        ~> (/\ k \in DOMAIN runs
            /\ \/ \A i \in OtherItems(k) :
                     /\ runs[k].claimed[i] = 1
                     /\ LastStatus(runs[k], i) \in Terminal
                     /\ jobs[runs[k].jobId].items[i].status \in Terminal
               \/ Cardinality({w \in 1..MaxItems : BlockedIn(k, w)})
                     >= MinInt(runs[k].safeConcurrency.v, Length(runs[k].urls)))

\* C30's case: of three items and two workers, the first worker is blocked
\* in the call for the first item; the second worker has taken the second
\* item and then the third, and both have ended.
C30_Witness ==
    \E k \in DOMAIN runs :
        /\ Length(runs[k].urls) = 3
        /\ Len(runs[k].workers) = 2
        /\ runs[k].workers[1].pc = "hung"
        /\ runs[k].workers[1].item = 0
        /\ runs[k].workers[2].pc = "returned"
        /\ LastStatus(runs[k], 1) = "success"
        /\ LastStatus(runs[k], 2) = "success"
        /\ LastStatus(runs[k], 0) = "processing"
        /\ jobs[runs[k].jobId].status = "processing"

\* The places in the event log ev of the events copyFolder's callback
\* caused ("Copying: name (current/total)").
CopyingEvents(ev) == {n \in 1..Len(ev) : ev[n].message.tag = "Copying"}

\* The direct children of the source folder of item i the backend has
\* copied so far.
DirectChildrenCopied(r, i) ==
    {n \in 1..Len(r.copied[i]) : Len(r.copied[i][n].path) = 1}

IsFolderItem(r, i) == r.items[i].parsed.ok /\ r.items[i].parsed.type = "folder"

\* The events of a folder item whose source folder has T direct children:
\* after "Starting..." the callback's events are number 1, 2, ... of T in
\* that order, each Processing.
FolderEventsInOrder(r, i) ==
    LET ev == r.events[i]
    IN /\ CopyingEvents(ev) \in {2..j : j \in 1..(Len(ev) + 1)}
       /\ \A n \in CopyingEvents(ev) :
             /\ ev[n].status = "processing"
             /\ ev[n].message.a = n - 1
             /\ ev[n].message.b = ev[2].message.b
             /\ ev[n].message.a <= ev[n].message.b
       /\ \A w \in DOMAIN r.workers :
             (/\ r.workers[w].pc = "copyFolder.child"
              /\ r.workers[w].item = i
              /\ r.workers[w].frames = << >>)
             => ev[Len(ev)].message = Msg("Copying", r.workers[w].cur, r.workers[w].total)

\* The Success of a folder item comes after all T events, reports T, and T
\* direct children have been copied; with T = 0 it follows "Starting...".
FolderSuccessReportsCount(r, i) ==
    LET ev == r.events[i]
    IN LastStatus(r, i) = "success" =>
          /\ CopyingEvents(ev) = 2..(ev[Len(ev)].message.a + 1)
          /\ Len(ev) = ev[Len(ev)].message.a + 2
          /\ \A n \in CopyingEvents(ev) : ev[n].message.b = ev[Len(ev)].message.a
          /\ Cardinality(DirectChildrenCopied(r, i)) = ev[Len(ev)].message.a
          /\ ev[Len(ev)].message.tag = "Copied folder"

\* C31: for a folder item whose source has T direct children, the
\* Processing events carry percent floor(k * 100 / T) for k = 1..T in that
\* order, the final Success message reports the count T, and for T = 0 no
\* intermediate event is emitted and the item still ends in Success.
C31_FolderEventsCarryFloorOfShare ==
    \A k \in DOMAIN runs : \A i \in DOMAIN runs[k].items :
        IsFolderItem(runs[k], i) =>
            /\ FolderEventsInOrder(runs[k], i)
            /\ FolderSuccessReportsCount(runs[k], i)
            /\ \A n \in CopyingEvents(runs[k].events[i]) :
                  runs[k].events[i][n].progress
                     = (runs[k].events[i][n].message.a * 100)
                          \div runs[k].events[i][n].message.b

\* C31, what the code does: the order of the events and the count of the
\* Success are as stated, and the percent is the floor of the product of
\* doubles (k / T) * 100, which is floor(k * 100 / T) or one less.
C31_EventsInOrderAndPercentWithinOne ==
    \A k \in DOMAIN runs : \A i \in DOMAIN runs[k].items :
        IsFolderItem(runs[k], i) =>
            /\ FolderEventsInOrder(runs[k], i)
            /\ FolderSuccessReportsCount(runs[k], i)
            /\ \A n \in CopyingEvents(runs[k].events[i]) :
                  LET e == runs[k].events[i][n]
                  IN /\ e.progress <= (e.message.a * 100) \div e.message.b
                     /\ e.progress >= (e.message.a * 100) \div e.message.b - 1
                     /\ e.message.b <= 3 =>
                           e.progress = (e.message.a * 100) \div e.message.b

\* C31's examples: a folder of three files that has ended in Success after
\* 33, 66 and 100, and an empty folder that has ended in Success.
C31_ThreeChildren ==
    \E k \in DOMAIN runs :
        /\ LastStatus(runs[k], 0) = "success"
        /\ Len(runs[k].events[0]) = 5
        /\ runs[k].events[0][2].progress = 33
        /\ runs[k].events[0][3].progress = 66
        /\ runs[k].events[0][4].progress = 100
        /\ runs[k].events[0][5].message = Msg("Copied folder", 3, 0)

C31_EmptyFolder ==
    \E k \in DOMAIN runs :
        /\ IsFolderItem(runs[k], 0)
        /\ LastStatus(runs[k], 0) = "success"
        /\ Len(runs[k].events[0]) = 2
        /\ runs[k].events[0][2].message = Msg("Copied folder", 0, 0)

\* The files among what the backend has copied for item i.
FilesCopied(r, i) == {n \in 1..Len(r.copied[i]) : r.copied[i][n].kind = "file"}

\* A backend call for item i of run k is in flight.
InFlight(r, i) ==
    \E w \in DOMAIN r.workers :
        r.workers[w].pc \in BackendCalls /\ r.workers[w].item = i

\* C37: in a folder copy, a fault while copying any child (at any nesting
\* depth) stops the copy of that folder at that child: the remaining
\* children are not attempted, the children already copied are not undone,
\* and the whole folder item ends in Error, never in Success with a partial
\* count.
C37_ChildFaultEndsTheFolderInError ==
    [][\A k \in DOMAIN runs : \A i \in DOMAIN runs[k].items :
          (k \in DOMAIN runs' /\ IsFolderItem(runs[k], i)) =>
             /\ runs'[k].faults[i] > runs[k].faults[i] =>
                   /\ LastStatus(runs'[k], i) = "error"
                   /\ runs'[k].results[i].defined /\ ~runs'[k].results[i].success
                   /\ runs'[k].copied[i] = runs[k].copied[i]
                   /\ ~InFlight(runs'[k], i)
             /\ runs[k].faults[i] > 0 =>
                   /\ LastStatus(runs'[k], i) = "error"
                   /\ runs'[k].copied[i] = runs[k].copied[i]
                   /\ ~InFlight(runs'[k], i)
                   /\ runs'[k].events[i] = runs[k].events[i]
                   /\ runs'[k].faults[i] = runs[k].faults[i]
             /\ \E m \in 0..Len(runs'[k].copied[i]) :
                   runs[k].copied[i] = SubSeq(runs'[k].copied[i], 1, m)]_vars

\* C37's case: the folder item has ended in Error on a fault two levels
\* below the source folder, after a file there had been copied and while
\* the source folder has a child that was not reached.
C37_Witness ==
    \E k \in DOMAIN runs :
        /\ IsFolderItem(runs[k], 0)
        /\ runs[k].faults[0] = 1
        /\ LastStatus(runs[k], 0) = "error"
        /\ runs[k].events[0][Len(runs[k].events[0]) - 1].message = Msg("Copying", 1, 2)
        /\ \E n \in FilesCopied(runs[k], 0) : Len(runs[k].copied[0][n].path) = 3

\* C37's case at the first level: the second of three files has failed
\* after the first was copied.
C37_WitnessDirectChild ==
    \E k \in DOMAIN runs :
        /\ IsFolderItem(runs[k], 0)
        /\ runs[k].faults[0] = 1
        /\ LastStatus(runs[k], 0) = "error"
        /\ runs[k].events[0][Len(runs[k].events[0]) - 1].message = Msg("Copying", 2, 3)
        /\ runs[k].copied[0] = <<[path |-> << >>, kind |-> "folder"],
                                 [path |-> <<1>>, kind |-> "file"]>>

\* C38: the count of files reported in a folder item's Success message
\* equals the total number of files copied for that item over the whole
\* recursive tree, including the files inside its subfolders.
C38_SuccessCountIsFilesOfTheTree ==
    \A k \in DOMAIN runs : \A i \in DOMAIN runs[k].items :
        (IsFolderItem(runs[k], i) /\ LastStatus(runs[k], i) = "success") =>
            runs[k].events[i][Len(runs[k].events[i])].message
               = Msg("Copied folder", Cardinality(FilesCopied(runs[k], i)), 0)

\* C38, what the code does: the count is the number of direct children of
\* the source folder, files and folders alike.
C38_SuccessCountIsDirectChildren ==
    \A k \in DOMAIN runs : \A i \in DOMAIN runs[k].items :
        (IsFolderItem(runs[k], i) /\ LastStatus(runs[k], i) = "success") =>
            runs[k].events[i][Len(runs[k].events[i])].message
               = Msg("Copied folder", Cardinality(DirectChildrenCopied(runs[k], i)), 0)

\* C38's case: a Success that reports 1 for a source folder whose one child
\* is a folder of two files.
C38_CountsSubfolderNotItsFiles ==
    \E k \in DOMAIN runs :
        /\ LastStatus(runs[k], 0) = "success"
        /\ runs[k].events[0][Len(runs[k].events[0])].message = Msg("Copied folder", 1, 0)
        /\ Cardinality(FilesCopied(runs[k], 0)) = 2

\* The last operation was a createJob, or a POST /api/copy, that returned
\* a job id.
CreateJobReturned ==
    \/ ret.op = "createJob" /\ ~ret.threw
    \/ ret.op = "POST" /\ ret.code = 200

\* The run createJob started last.
LastRun == runs[nextRun - 1]

ValidReferences(r) == {i \in DOMAIN r.items : r.items[i].parsed.ok}

\* C32: when createJob returns (and when the submission endpoint builds its
\* response reporting status 'processing'), the job in the registry has
\* status Processing and every item is still Pending: no item has been
\* processed before the call returns, for every batch including batches
\* whose references are all invalid.
C32_AllItemsPendingWhenCreateJobReturns ==
    CreateJobReturned =>
        /\ jobs[ret.jobId].status = "processing"
        /\ \A i \in DOMAIN jobs[ret.jobId].items :
              jobs[ret.jobId].items[i].status = "pending"

\* C32, what the code does: when createJob returns, every worker has run
\* up to its first backend call.  The references below the cursor are
\* Processing when valid and Error when invalid, the others are Pending;
\* as many valid references are Processing as there are workers, or all of
\* them, the cursor standing behind the last of them or, when workers are
\* left over, at the end; the job is Processing, but already Complete when
\* every reference of a non-empty batch was invalid and a worker ran.
C32_WorkersRanToFirstCallWhenCreateJobReturns ==
    CreateJobReturned =>
        LET job == jobs[ret.jobId]
            r == LastRun
            processing == {i \in DOMAIN job.items : job.items[i].status = "processing"}
        IN /\ r.jobId = ret.jobId
           /\ \A i \in DOMAIN job.items :
                 job.items[i].status =
                    IF i >= r.currentIndex THEN "pending"
                    ELSE IF r.items[i].parsed.ok THEN "processing"
                    ELSE "error"
           /\ Cardinality(processing)
                 = MinInt(Len(r.workers), Cardinality(ValidReferences(r)))
           /\ IF Cardinality(ValidReferences(r)) < Len(r.workers)
              THEN r.currentIndex = Length(r.urls)
              ELSE r.currentIndex = 0 \/ (r.currentIndex - 1) \in processing
           /\ Len(r.workers) = 0 => r.currentIndex = 0
           /\ job.status =
                 IF Len(r.workers) >= 1 /\ ValidReferences(r) = {}
                 THEN "complete" ELSE "processing"
           /\ ret.op = "POST" => ret.status = "processing"

\* C32's case: createJob has returned for an invalid reference followed by
\* a file, with one worker: the first item is Error, the second Processing.
C32_Witness ==
    /\ ret.op = "createJob" /\ ~ret.threw
    /\ Length(jobs[ret.jobId].items) = 2
    /\ jobs[ret.jobId].items[0].status = "error"
    /\ jobs[ret.jobId].items[1].status = "processing"
    /\ jobs[ret.jobId].status = "processing"

\* C32's case of a batch whose references are all invalid: the endpoint
\* answers 'processing' for a job that is Complete.
C32_WitnessAllInvalid ==
    /\ ret.op = "POST" /\ ret.code = 200
    /\ ret.status = "processing"
    /\ Length(jobs[ret.jobId].items) = 2
    /\ \A i \in DOMAIN jobs[ret.jobId].items : jobs[ret.jobId].items[i].status = "error"
    /\ jobs[ret.jobId].status = "complete"

\* The fields of a job, and of an item, a progress event never writes.
SameJobIdentity(a, b) ==
    /\ a.id = b.id
    /\ a.totalItems = b.totalItems
    /\ a.targetFolderId = b.targetFolderId
    /\ a.createdAt = b.createdAt
    /\ DOMAIN a.items = DOMAIN b.items

SameItemIdentity(a, b) ==
    /\ DOMAIN a = DOMAIN b
    /\ a.index = b.index
    /\ a.url = b.url

\* C35: applying a progress event for (job J, index i) changes only the
\* status, progress and message of item i of J and J's completedItems and
\* status; it leaves every other item of J, J's id, totalItems,
\* targetFolderId, createdAt and the length and order of J's items
\* unchanged, and leaves every other job unchanged; an event for an index
\* outside J's items changes nothing.
C35_ProgressEventTouchesOnlyItsItem ==
    [][ret'.op = "onProgress" =>
          /\ DOMAIN jobs' = DOMAIN jobs
          /\ \A id \in DOMAIN jobs : id # ret'.jobId => jobs'[id] = jobs[id]
          /\ ret'.jobId \in DOMAIN jobs =>
                LET old == jobs[ret'.jobId]
                    new == jobs'[ret'.jobId]
                IN IF ret'.index \notin DOMAIN old.items
                   THEN new = old
                   ELSE /\ SameJobIdentity(old, new)
                        /\ \A x \in DOMAIN old.items :
                              x # ret'.index => new.items[x] = old.items[x]
                        /\ SameItemIdentity(old.items[ret'.index], new.items[ret'.index])
                        /\ new.items[ret'.index].status = ret'.event.status
                        /\ new.items[ret'.index].progress = ret'.event.progress
                        /\ new.items[ret'.index].message = ret'.event.message
                        /\ ret'.event.status \notin Terminal =>
                              /\ new.completedItems = old.completedItems
                              /\ new.status = old.status]_vars

\* C35's case: a Success for item 0 of a job of two items has been applied
\* beside another job; item 1 is Processing as it was.
C35_Witness ==
    /\ ret.op = "onProgress"
    /\ ret.index = 0
    /\ ret.event.status = "success"
    /\ Cardinality(DOMAIN jobs) = 2
    /\ ret.jobId \in DOMAIN jobs
    /\ Length(jobs[ret.jobId].items) = 2
    /\ jobs[ret.jobId].items[0].status = "success"
    /\ jobs[ret.jobId].items[1].status = "processing"
    /\ jobs[ret.jobId].items[1].message = Msg("Waiting...", 0, 0)
    /\ jobs[ret.jobId].completedItems = 1

\* C35's case of an index outside the items: an event for index 1 of a job
\* of one item.
C35_WitnessOutside ==
    /\ ret.op = "onProgress"
    /\ ret.jobId \in DOMAIN jobs
    /\ ret.index = 1
    /\ Length(jobs[ret.jobId].items) = 1

\* The moves of an item's status.
ItemMoves ==
    {<<"pending", "processing">>, <<"processing", "success">>,
     <<"processing", "error">>, <<"pending", "error">>}

\* The steps that are not the creation of a job: the items of a new job are
\* new items.
ItemsMoveAsStated ==
    \A id \in (DOMAIN jobs) \cap (DOMAIN jobs') :
        \A i \in (DOMAIN jobs[id].items) \cap (DOMAIN jobs'[id].items) :
            \/ jobs'[id].items[i].status = jobs[id].items[i].status
            \/ <<jobs[id].items[i].status, jobs'[id].items[i].status>> \in ItemMoves

\* An item that is Error and was Pending just before, or when its job was
\* created, has an invalid reference.
PendingToErrorIsInvalidReference ==
    \A k \in DOMAIN runs' : \A i \in DOMAIN runs'[k].items :
        (/\ runs'[k].jobId \in DOMAIN jobs'
         /\ jobs'[runs'[k].jobId].items[i].status = "error"
         /\ k \in DOMAIN runs =>
               /\ runs[k].jobId \in DOMAIN jobs
               /\ jobs[runs[k].jobId].items[i].status = "pending")
        => ~runs'[k].items[i].parsed.ok

\* C33: an item's status only moves Pending to Processing, Processing to
\* Success or Error, or Pending directly to Error (invalid reference);
\* Success and Error are absorbing, an item never returns to Pending, and a
\* Success item never becomes Error or the reverse.
C33_ItemStatusMovesForward ==
    [][/\ nextRun' = nextRun => ItemsMoveAsStated
       /\ PendingToErrorIsInvalidReference]_vars

\* Two jobs that were given the same id (C16): an item that its run has
\* ended in Success is Processing in the registry.
C33_SuccessBackToProcessing ==
    \E k \in DOMAIN runs :
        /\ runs[k].jobId \in DOMAIN jobs
        /\ LastStatus(runs[k], 0) = "success"
        /\ jobs[runs[k].jobId].items[0].status = "processing"

\* C33's case: of two items the first, an invalid reference, has gone from
\* Pending to Error without an event in between, and the second has gone
\* through Processing to Success.
C33_Witness ==
    \E k \in DOMAIN runs :
        /\ runs[k].jobId \in DOMAIN jobs
        /\ Length(runs[k].items) = 2
        /\ ~runs[k].items[0].parsed.ok
        /\ Len(runs[k].events[0]) = 1
        /\ jobs[runs[k].jobId].items[0].status = "error"
        /\ Len(runs[k].events[1]) > 2
        /\ jobs[runs[k].jobId].items[1].status = "success"

\* The items of run k's job that the registry shows in Processing.
ProcessingItems(r) ==
    IF r.jobId \notin DOMAIN jobs THEN {}
    ELSE {i \in DOMAIN jobs[r.jobId].items :
             jobs[r.jobId].items[i].status = "processing"}

\* The workers of a run that are suspended in a backend call, returning or
\* not.
CallsInFlight(r) ==
    {w \in DOMAIN r.workers : r.workers[w].pc \in BackendCalls \cup {"hung"}}

\* min(clamped concurrency, number of items); for a concurrency that is not
\* a number the clamp gives NaN and no worker starts (C6).
ConcurrencyLimit(r) ==
    IF r.concurrency.nan THEN 0
    ELSE MinInt(ClampInt(r.concurrency.v), Length(r.urls))

\* C34: at every moment the number of items of a job that are in
\* Processing, and the number of backend calls in flight for it, is at most
\* min(clamped concurrency, number of items), hence never more than 10.
C34_AtMostConcurrencyInFlight ==
    \A k \in DOMAIN runs :
        LET r == runs[k] IN
        /\ Cardinality(ProcessingItems(r)) <= ConcurrencyLimit(r)
        /\ Cardinality(CallsInFlight(r)) <= ConcurrencyLimit(r)
        /\ ConcurrencyLimit(r) <= MAX_CONCURRENCY

\* The limit holds an item back: concurrency 1 and two valid references, the
\* first in Processing with its call in flight, the second still Pending.
C34_Witness ==
    \E k \in DOMAIN runs :
        LET r == runs[k] IN
        /\ r.concurrency = Num(1)
        /\ Length(r.urls) = 2
        /\ ProcessingItems(r) = {0}
        /\ CallsInFlight(r) = {1}
        /\ jobs[r.jobId].items[1].status = "pending"
        /\ r.items[1].parsed.ok

\* The limit reached with more than one worker: two calls in flight for a
\* job of two items whose requested concurrency is above the range.
C34_WitnessTwoInFlight ==
    \E k \in DOMAIN runs :
        LET r == runs[k] IN
        /\ r.concurrency = Num(999)
        /\ Cardinality(ProcessingItems(r)) = 2
        /\ Cardinality(CallsInFlight(r)) = 2

\* C36: a job's completedItems never decreases over the life of the job and
\* never exceeds totalItems, and totalItems always equals the number of
\* items in the job.
C36_CompletedItemsGrowsWithinTotalItems ==
    [][\A j \in DOMAIN jobs' :
          /\ jobs'[j].completedItems <= jobs'[j].totalItems
          /\ jobs'[j].totalItems = Cardinality(DOMAIN jobs'[j].items)
          /\ j \in DOMAIN jobs =>
                jobs'[j].completedItems >= jobs[j].completedItems]_vars

\* completedItems has grown twice: a job of two items, both ended, one in
\* Error, while the run that copied them is still known.
C36_Witness ==
    \E j \in DOMAIN jobs :
        /\ jobs[j].totalItems = 2
        /\ jobs[j].completedItems = 2
        /\ jobs[j].items[0].status = "error"
        /\ jobs[j].items[1].status = "success"

\* completedItems below totalItems: one item of two has ended, the other is
\* in Processing.
C36_WitnessPartial ==
    \E j \in DOMAIN jobs :
        /\ jobs[j].totalItems = 2
        /\ jobs[j].completedItems = 1
        /\ jobs[j].items[1].status = "success"
        /\ jobs[j].items[0].status = "processing"

\* C36 read on the items: completedItems is the number of items in Success
\* or Error.
C36_CompletedItemsCountsTerminalItems ==
    \A j \in DOMAIN jobs : jobs[j].completedItems = CountCompleted(jobs[j].items)

====
